---------------------------- MODULE Spec2Model ----------------------------
(***************************************************************************)
(* A model of libmp4tag: the buffered file layer, the ISO-BMFF box reader, *)
(* the box-tree parser, the ilst item codec, the two-strategy writer and   *)
(* the context facade.                                                     *)
(*                                                                         *)
(* Files are byte sequences (bytes are 0..255); a FourCC is the sequence   *)
(* of its four bytes; a C string is the sequence of its bytes without the  *)
(* terminator, and the NULL pointer to a string is the value Null.         *)
(*                                                                         *)
(* Every public entry point is one action.  The operating system's         *)
(* outcomes (a read, write, open, fsync or rename that fails) are inputs   *)
(* of the action, drawn from the set of fault plans.  Memory exhaustion is *)
(* not modelled: malloc, calloc and str_dup succeed.                       *)
(***************************************************************************)
EXTENDS Integers, Sequences, FiniteSets, TLC

(***************************************************************************)
(* Error codes (include/mp4tag/mp4tag_error.h)                             *)
(***************************************************************************)
MP4TAG_OK == 0
MP4TAG_ERR_INVALID_ARG == -1
MP4TAG_ERR_NO_MEMORY == -2
MP4TAG_ERR_IO == -3
MP4TAG_ERR_NOT_OPEN == -4
MP4TAG_ERR_ALREADY_OPEN == -5
MP4TAG_ERR_READ_ONLY == -6
MP4TAG_ERR_NOT_MP4 == -10
MP4TAG_ERR_CORRUPT == -12
MP4TAG_ERR_TRUNCATED == -13
MP4TAG_ERR_NO_TAGS == -20
MP4TAG_ERR_TAG_NOT_FOUND == -21
MP4TAG_ERR_TAG_TOO_LARGE == -22
MP4TAG_ERR_NO_SPACE == -30
MP4TAG_ERR_WRITE_FAILED == -31
MP4TAG_ERR_SEEK_FAILED == -32
MP4TAG_ERR_RENAME_FAILED == -33

(***************************************************************************)
(* Box types and tag atoms (mp4_atoms.h)                                   *)
(***************************************************************************)
MP4_BOX_FTYP == <<102, 116, 121, 112>>
MP4_BOX_MOOV == <<109, 111, 111, 118>>
MP4_BOX_MDAT == <<109, 100, 97, 116>>
MP4_BOX_FREE == <<102, 114, 101, 101>>
MP4_BOX_SKIP == <<115, 107, 105, 112>>
MP4_BOX_UDTA == <<117, 100, 116, 97>>
MP4_BOX_META == <<109, 101, 116, 97>>
MP4_BOX_ILST == <<105, 108, 115, 116>>
MP4_BOX_HDLR == <<104, 100, 108, 114>>
MP4_BOX_DATA == <<100, 97, 116, 97>>

MP4_TAG_NAM == <<169, 110, 97, 109>>
MP4_TAG_ART == <<169, 65, 82, 84>>
MP4_TAG_TRKN == <<116, 114, 107, 110>>
MP4_TAG_DISK == <<100, 105, 115, 107>>
MP4_TAG_GNRE == <<103, 110, 114, 101>>
MP4_TAG_TMPO == <<116, 109, 112, 111>>
MP4_TAG_COVR == <<99, 111, 118, 114>>
MP4_TAG_CPIL == <<99, 112, 105, 108>>
MP4_TAG_PGAP == <<112, 103, 97, 112>>

MP4_DATA_IMPLICIT == 0
MP4_DATA_UTF8 == 1
MP4_DATA_JPEG == 13
MP4_DATA_PNG == 14
MP4_DATA_INTEGER == 21

MP4TAG_TARGET_ALBUM == 50

(***************************************************************************)
(* Bounds of the model                                                     *)
(***************************************************************************)
\* Calls made on the context in one behaviour.
MaxOps == 3
\* Calls of one behaviour that meet a fault, and the last call that can.
MaxFaultyCalls == 1
LastFaultyOp == 2
\* The longest value handed to mp4tag_set_tag_string.
MaxValueLen == 5
\* Payload bytes of the free box that follows the ilst in FileWithFree.
PadLen == 8
\* The read() calls and file_write calls a fault plan can make fail.
MaxRd == 8
MaxWr == 6
\* Bytes a failing write leaves in the file.
TornLen == 5
\* Sizes of the buffer handed to mp4tag_read_tag_string.
SmallBuf == 2
BigBuf == 64

(***************************************************************************)
(* Bytes and integers                                                      *)
(***************************************************************************)
Min(a, b) == IF a < b THEN a ELSE b
Max(a, b) == IF a > b THEN a ELSE b

\* The NULL pointer where the code holds a char *.
Null == <<-1>>

\* A sequence of n zero bytes.
Zeros(n) == [i \in 1..n |-> 0]

\* Sizes are int64_t in the code.  Every file of the model is far shorter
\* than Huge bytes, so a size of Huge or more is kept as Huge and a negative
\* 64-bit size as -Huge: each comparison the code makes with an offset of the
\* file comes out as it does for the exact value, as long as no sum leaves
\* the range of int64_t.  Sizes that close to INT64_MAX occur only in the
\* files of WalkSpec, which follows the sums one by one.
Huge == 1073741824

\* Big-endian uint32 of four bytes.
BE32(b) ==
    IF b[1] >= 64 THEN Huge
    ELSE b[1] * 16777216 + b[2] * 65536 + b[3] * 256 + b[4]

\* Big-endian int64 of eight bytes.
BE64(b) ==
    IF b[1] >= 128 THEN -Huge
    ELSE IF b[1] > 0 \/ b[2] > 0 \/ b[3] > 0 \/ b[4] > 0 THEN Huge
    ELSE BE32(SubSeq(b, 5, 8))

\* buffer_append_be32: the four bytes of a uint32, most significant first.
buffer_append_be32(val) ==
    << (val \div 16777216) % 256, (val \div 65536) % 256,
       (val \div 256) % 256, val % 256 >>

\* The file `f` with `data` written at offset `pos` (a hole reads as zeros).
Overwrite(f, pos, data) ==
    LET n == Max(Len(f), pos + Len(data))
    IN  [i \in 1..n |->
            IF i > pos /\ i <= pos + Len(data) THEN data[i - pos]
            ELSE IF i <= Len(f) THEN f[i] ELSE 0]

(***************************************************************************)
(* The buffered file layer (io/file_io.c).                                 *)
(*                                                                         *)
(* A world w holds the two files (disk: the file at the context's path,    *)
(* tmp: the scratch file "<path>.tmp", which exists iff tmpx), the two     *)
(* handles a call can hold (fh: the context's, tmph: the scratch's), the   *)
(* number of read() calls (nr) and of file_write calls that reach write()  *)
(* (nw) made so far in the current API call, and the call's fault plan.    *)
(***************************************************************************)
READ_BUF_SIZE == 8192

NullHandle ==
    [isnull |-> TRUE, file |-> "none", writable |-> FALSE, file_size |-> 0,
     pos |-> 0, buf |-> <<>>, buf_start |-> 0, buf_len |-> 0]

\* A fault plan: the rd-th read() of the call fails (0: none does), the wr-th
\* file_write of the call fails after wp of its bytes reached the file, and
\* the system calls named in sys fail ("create": fopen of the scratch file,
\* "open": open(), "sync": fsync(), "rename": rename(), "reopen": the open()
\* that follows rename()).
NoFaults == [rd |-> 0, wr |-> 0, wp |-> 0, sys |-> {}]

FileOf(w, k) == IF w[k].file = "orig" THEN w.disk ELSE w.tmp

\* file_open_common: open() and fstat(), then a handle at position 0 with
\* an empty read buffer.
file_open_common(bytes, file, writable) ==
    [isnull |-> FALSE, file |-> file, writable |-> writable,
     file_size |-> Len(bytes), pos |-> 0, buf |-> <<>>, buf_start |-> 0,
     buf_len |-> 0]

file_size(h) == IF h.isnull THEN -1 ELSE h.file_size

\* file_seek only moves the logical position.
file_seek(w, k, offset) == [w EXCEPT ![k].pos = offset]

\* lseek() + read() of up to `count` bytes at the handle's position:
\* n = -1 when the call fails, else the bytes up to the end of the file.
os_read(w, k, count) ==
    IF w.nr + 1 = w.plan.rd
    THEN [w |-> [w EXCEPT !.nr = @ + 1], n |-> -1, data |-> <<>>]
    ELSE [w |-> [w EXCEPT !.nr = @ + 1],
          n |-> Max(0, Min(Len(FileOf(w, k)), w[k].pos + count) - w[k].pos),
          data |-> SubSeq(FileOf(w, k), w[k].pos + 1,
                          Min(Len(FileOf(w, k)), w[k].pos + count))]

RECURSIVE file_read_loop(_, _, _, _)

\* The refill of file_read: r is what read() gave at position pos.
file_read_refill(r, k, dst, remaining, pos) ==
    IF r.n < 0 THEN [w |-> r.w, rc |-> MP4TAG_ERR_IO, data |-> dst]
    ELSE IF r.n = 0 THEN [w |-> r.w, rc |-> MP4TAG_ERR_TRUNCATED, data |-> dst]
    ELSE file_read_loop([r.w EXCEPT ![k].buf = r.data, ![k].buf_start = pos,
                                    ![k].buf_len = r.n],
                        k, dst, remaining)

\* The loop of file_read: bytes come from the read buffer while it covers
\* the position, else the buffer is refilled from the position.
file_read_loop(w, k, dst, remaining) ==
    IF remaining = 0 THEN [w |-> w, rc |-> 0, data |-> dst]
    ELSE IF w[k].buf_len > 0 /\ w[k].pos >= w[k].buf_start
            /\ w[k].pos < w[k].buf_start + w[k].buf_len
    THEN LET offset == w[k].pos - w[k].buf_start
             to_copy == Min(remaining, w[k].buf_len - offset)
         IN  file_read_loop([w EXCEPT ![k].pos = @ + to_copy], k,
                            dst \o SubSeq(w[k].buf, offset + 1, offset + to_copy),
                            remaining - to_copy)
    ELSE IF w[k].pos < 0
    THEN [w |-> w, rc |-> MP4TAG_ERR_SEEK_FAILED, data |-> dst]
    ELSE file_read_refill(os_read(w, k, READ_BUF_SIZE), k, dst, remaining,
                          w[k].pos)

\* file_read: exactly `size` bytes through the read buffer.
file_read(w, k, size) ==
    IF w[k].isnull THEN [w |-> w, rc |-> MP4TAG_ERR_INVALID_ARG, data |-> <<>>]
    ELSE file_read_loop(w, k, <<>>, size)

\* The end of file_read_partial: r is what read() gave.
file_read_partial_done(r, k) ==
    IF r.n < 0 THEN [w |-> r.w, n |-> -1, data |-> <<>>]
    ELSE [w |-> [r.w EXCEPT ![k].pos = @ + r.n, ![k].buf_len = 0],
          n |-> r.n, data |-> r.data]

\* file_read_partial: up to `size` bytes straight from the file; the read
\* buffer is dropped.
file_read_partial(w, k, size) ==
    IF w[k].isnull \/ w[k].pos < 0 THEN [w |-> w, n |-> -1, data |-> <<>>]
    ELSE file_read_partial_done(os_read(w, k, size), k)

\* The world with `data` stored in the file of handle k at its position.
Store(w, k, data) ==
    IF w[k].file = "orig"
    THEN [w EXCEPT !.disk = Overwrite(@, w[k].pos, data)]
    ELSE [w EXCEPT !.tmp = Overwrite(@, w[k].pos, data)]

\* file_write: exactly Len(data) bytes at the handle's position.  A failing
\* write() leaves the bytes already written in the file and returns before
\* the read buffer is dropped and the cached size is updated.
file_write(w, k, data) ==
    IF w[k].isnull THEN [w |-> w, rc |-> MP4TAG_ERR_INVALID_ARG]
    ELSE IF ~w[k].writable THEN [w |-> w, rc |-> MP4TAG_ERR_READ_ONLY]
    ELSE IF w[k].pos < 0 THEN [w |-> w, rc |-> MP4TAG_ERR_SEEK_FAILED]
    ELSE IF Len(data) = 0 THEN [w |-> [w EXCEPT ![k].buf_len = 0], rc |-> 0]
    ELSE IF w.nw + 1 = w.plan.wr
    THEN LET p == Min(w.plan.wp, Len(data) - 1) IN
         [w |-> [Store(w, k, SubSeq(data, 1, p)) EXCEPT ![k].pos = @ + p,
                                                        !.nw = @ + 1],
          rc |-> MP4TAG_ERR_WRITE_FAILED]
    ELSE [w |-> [Store(w, k, data) EXCEPT
                     ![k].pos = @ + Len(data), ![k].buf_len = 0,
                     ![k].file_size = Max(@, w[k].pos + Len(data)),
                     !.nw = @ + 1],
          rc |-> 0]

\* file_sync: fsync() of the handle's descriptor.
file_sync(w, k) ==
    IF w[k].isnull THEN MP4TAG_ERR_INVALID_ARG
    ELSE IF "sync" \in w.plan.sys THEN MP4TAG_ERR_IO ELSE 0

(***************************************************************************)
(* Box primitives (mp4/mp4_atoms.c)                                        *)
(***************************************************************************)
NoBox ==
    [type |-> <<0, 0, 0, 0>>, offset |-> 0, size |-> 0, data_offset |-> 0,
     data_size |-> 0, header_size |-> 0]

\* The box read from a header: data_offset and data_size follow from the
\* offset, the resolved size and the header size.
MkBox(type, offset, size, header_size) ==
    [type |-> type, offset |-> offset, size |-> size,
     data_offset |-> offset + header_size,
     data_size |-> size - header_size, header_size |-> header_size]

\* The 64-bit size that follows a header whose 32-bit size is 1.
read_box_header_ext(e, type, offset) ==
    IF e.rc # 0 THEN [w |-> e.w, rc |-> e.rc, box |-> NoBox]
    ELSE [w |-> e.w, rc |-> MP4TAG_OK, box |-> MkBox(type, offset, BE64(e.data), 16)]

\* The 8 header bytes r read at `offset`: size 1 has a 64-bit size follow,
\* size 0 runs to the end of the file.
read_box_header_raw(r, k, offset) ==
    IF r.rc # 0 THEN [w |-> r.w, rc |-> r.rc, box |-> NoBox]
    ELSE IF BE32(SubSeq(r.data, 1, 4)) = 1
    THEN read_box_header_ext(file_read(r.w, k, 8), SubSeq(r.data, 5, 8), offset)
    ELSE IF BE32(SubSeq(r.data, 1, 4)) = 0
    THEN [w |-> r.w, rc |-> MP4TAG_OK,
          box |-> MkBox(SubSeq(r.data, 5, 8), offset,
                        file_size(r.w[k]) - offset, 8)]
    ELSE [w |-> r.w, rc |-> MP4TAG_OK,
          box |-> MkBox(SubSeq(r.data, 5, 8), offset,
                        BE32(SubSeq(r.data, 1, 4)), 8)]

\* mp4_read_box_header: the box header at the handle's position.
mp4_read_box_header(w, k) ==
    IF w[k].isnull THEN [w |-> w, rc |-> MP4TAG_ERR_INVALID_ARG, box |-> NoBox]
    ELSE IF w[k].pos < 0 THEN [w |-> w, rc |-> MP4TAG_ERR_IO, box |-> NoBox]
    ELSE read_box_header_raw(file_read(w, k, 8), k, w[k].pos)

\* The C string held in a byte array: its bytes up to the first NUL.
RECURSIVE CStr(_)
CStr(b) == IF b = <<>> \/ b[1] = 0 THEN <<>> ELSE <<b[1]>> \o CStr(Tail(b))

\* mp4_fourcc_to_str: the four bytes and a terminator, read as a C string.
mp4_fourcc_to_str(fourcc) == CStr(fourcc)

\* mp4_str_to_fourcc: the first four bytes, NUL-padded on the right.
mp4_str_to_fourcc(s) ==
    IF s = Null THEN <<0, 0, 0, 0>>
    ELSE [i \in 1..4 |-> IF i <= Len(s) THEN s[i] ELSE 0]

\* mp4_write_box_header: size (uint32, big-endian) then type.
mp4_write_box_header(type, size) == buffer_append_be32(size) \o type

\* mp4_write_free_box: a free box of total_size bytes (nothing if < 8).
mp4_write_free_box(total_size) ==
    IF total_size < 8 THEN <<>>
    ELSE mp4_write_box_header(MP4_BOX_FREE, total_size) \o Zeros(total_size - 8)

(***************************************************************************)
(* The box-tree parser (mp4/mp4_parser.c)                                  *)
(***************************************************************************)
\* mp4_file_info_t after memset(info, 0, ...).
ZeroInfo ==
    [valid |-> FALSE, ftyp_offset |-> 0, moov_offset |-> 0, moov_size |-> 0,
     has_udta |-> FALSE, udta_offset |-> 0, udta_size |-> 0,
     has_meta |-> FALSE, meta_offset |-> 0, meta_size |-> 0,
     meta_has_hdlr |-> FALSE,
     has_ilst |-> FALSE, ilst_offset |-> 0, ilst_size |-> 0,
     has_free_after_ilst |-> FALSE, free_after_ilst_offset |-> 0,
     free_after_ilst_size |-> 0, mdat_offset |-> 0, mdat_size |-> 0]

\* The brands mp4_validate_ftyp accepts as major brand.
MajorBrands ==
    { <<105, 115, 111, 109>>, <<105, 115, 111, 50>>, <<105, 115, 111, 53>>,
      <<105, 115, 111, 54>>, <<109, 112, 52, 49>>, <<109, 112, 52, 50>>,
      <<77, 52, 65, 32>>, <<77, 52, 66, 32>>, <<77, 52, 80, 32>>,
      <<77, 52, 86, 32>>, <<77, 52, 86, 72>>, <<97, 118, 99, 49>>,
      <<102, 52, 118, 32>>, <<113, 116, 32, 32>>, <<77, 83, 78, 86>>,
      <<100, 97, 115, 104>>, <<51, 103, 112, 52>>, <<51, 103, 112, 53>>,
      <<51, 103, 112, 54>>, <<51, 103, 50, 97>> }

\* The brands mp4_validate_ftyp accepts in the compatible-brands list.
CompatBrands ==
    { <<105, 115, 111, 109>>, <<109, 112, 52, 49>>, <<109, 112, 52, 50>>,
      <<77, 52, 65, 32>>, <<77, 52, 66, 32>>, <<77, 52, 86, 32>>,
      <<97, 118, 99, 49>> }

RECURSIVE compat_scan(_, _, _, _)

\* One compatible brand r read at compat_offset.
compat_brand(r, k, compat_offset, compat_end) ==
    IF r.rc # 0 THEN [w |-> r.w, rc |-> MP4TAG_ERR_NOT_MP4]
    ELSE IF r.data \in CompatBrands THEN [w |-> r.w, rc |-> MP4TAG_OK]
    ELSE compat_scan(r.w, k, compat_offset + 4, compat_end)

\* The scan of the compatible brands of mp4_validate_ftyp.
compat_scan(w, k, compat_offset, compat_end) ==
    IF compat_offset + 4 > compat_end
    THEN [w |-> w, rc |-> MP4TAG_ERR_NOT_MP4]
    ELSE compat_brand(file_read(w, k, 4), k, compat_offset, compat_end)

\* The major brand b read from the ftyp box.
validate_major_brand(b, k, box) ==
    IF b.rc # 0 THEN [w |-> b.w, rc |-> MP4TAG_ERR_NOT_MP4]
    ELSE IF b.data \in MajorBrands THEN [w |-> b.w, rc |-> MP4TAG_OK]
    ELSE IF box.data_size >= 12
    THEN compat_scan(file_seek(b.w, k, box.data_offset + 8), k,
                     box.data_offset + 8, box.data_offset + box.data_size)
    ELSE [w |-> b.w, rc |-> MP4TAG_ERR_NOT_MP4]

\* The first box header h of the file.
validate_first_box(h, k) ==
    IF h.rc # 0 THEN [w |-> h.w, rc |-> MP4TAG_ERR_NOT_MP4]
    ELSE IF h.box.type # MP4_BOX_FTYP THEN [w |-> h.w, rc |-> MP4TAG_ERR_NOT_MP4]
    ELSE IF h.box.data_size < 4 THEN [w |-> h.w, rc |-> MP4TAG_ERR_NOT_MP4]
    ELSE validate_major_brand(file_read(h.w, k, 4), k, h.box)

\* mp4_validate_ftyp: the first box is ftyp with an accepted brand.
mp4_validate_ftyp(w, k) ==
    IF w[k].isnull THEN [w |-> w, rc |-> MP4TAG_ERR_INVALID_ARG]
    ELSE validate_first_box(mp4_read_box_header(file_seek(w, k, 0), k), k)

RECURSIVE find_child_loop(_, _, _, _, _)

\* One child header h of the loop of find_child_box.
find_child_step(h, k, end, target_type) ==
    IF h.rc # 0 THEN [w |-> h.w, rc |-> h.rc, found |-> NoBox]
    ELSE IF h.box.size < 8
    THEN [w |-> h.w, rc |-> MP4TAG_ERR_CORRUPT, found |-> NoBox]
    ELSE IF h.box.type = target_type
    THEN [w |-> h.w, rc |-> MP4TAG_OK, found |-> h.box]
    ELSE find_child_loop(h.w, k, h.box.offset + h.box.size, end, target_type)

\* The loop of find_child_box over the boxes that tile [pos, end).
find_child_loop(w, k, pos, end, target_type) ==
    IF pos + 8 > end
    THEN [w |-> w, rc |-> MP4TAG_ERR_TAG_NOT_FOUND, found |-> NoBox]
    ELSE find_child_step(mp4_read_box_header(file_seek(w, k, pos), k), k, end,
                         target_type)

\* find_child_box: the first child of the given type.
find_child_box(w, k, parent_data_offset, parent_data_size, target_type) ==
    find_child_loop(w, k, parent_data_offset,
                    parent_data_offset + parent_data_size, target_type)

\* The header h read at after_offset by find_free_after.
find_free_step(h) ==
    IF h.rc # 0 THEN [w |-> h.w, rc |-> h.rc, off |-> 0, size |-> 0]
    ELSE IF h.box.type = MP4_BOX_FREE \/ h.box.type = MP4_BOX_SKIP
    THEN [w |-> h.w, rc |-> MP4TAG_OK, off |-> h.box.offset, size |-> h.box.size]
    ELSE [w |-> h.w, rc |-> MP4TAG_ERR_TAG_NOT_FOUND, off |-> 0, size |-> 0]

\* find_free_after: the free or skip box that starts at after_offset.
find_free_after(w, k, after_offset, container_end) ==
    IF after_offset + 8 > container_end
    THEN [w |-> w, rc |-> MP4TAG_ERR_TAG_NOT_FOUND, off |-> 0, size |-> 0]
    ELSE find_free_step(mp4_read_box_header(file_seek(w, k, after_offset), k))

\* What the top-level scan records of a box.
top_level_record(info, box) ==
    IF box.type = MP4_BOX_FTYP THEN [info EXCEPT !.ftyp_offset = box.offset]
    ELSE IF box.type = MP4_BOX_MOOV
    THEN [info EXCEPT !.moov_offset = box.offset, !.moov_size = box.size]
    ELSE IF box.type = MP4_BOX_MDAT
    THEN [info EXCEPT !.mdat_offset = box.offset, !.mdat_size = box.size]
    ELSE info

RECURSIVE scan_top_level(_, _, _, _, _)

\* One top-level header h of the scan.
scan_top_level_step(h, k, fsize, info) ==
    IF h.rc # 0 \/ h.box.size < 8 THEN [w |-> h.w, info |-> info]
    ELSE scan_top_level(h.w, k, h.box.offset + h.box.size, fsize,
                        top_level_record(info, h.box))

\* The top-level scan of mp4_parse_structure: ftyp, moov and mdat recorded.
scan_top_level(w, k, pos, fsize, info) ==
    IF pos + 8 > fsize THEN [w |-> w, info |-> info]
    ELSE scan_top_level_step(mp4_read_box_header(file_seek(w, k, pos), k), k,
                             fsize, info)

\* The free box fr looked for after the ilst.
parse_free(fr, ilst, info) ==
    [w |-> fr.w,
     info |-> [info EXCEPT !.has_ilst = TRUE, !.ilst_offset = ilst.offset,
                           !.ilst_size = ilst.size,
                           !.free_after_ilst_offset = fr.off,
                           !.free_after_ilst_size = fr.size,
                           !.has_free_after_ilst = (fr.rc = MP4TAG_OK)]]

\* The ilst il looked for in meta.
parse_ilst(il, k, meta, info) ==
    IF il.rc # MP4TAG_OK THEN [w |-> il.w, info |-> info]
    ELSE parse_free(find_free_after(il.w, k, il.found.offset + il.found.size,
                                    meta.offset + meta.size),
                    il.found, info)

\* The hdlr hd looked for in meta.
parse_hdlr(hd, k, meta, info) ==
    parse_ilst(find_child_box(hd.w, k, meta.data_offset + 4,
                              Max(meta.data_size - 4, 0), MP4_BOX_ILST),
               k, meta, [info EXCEPT !.meta_has_hdlr = (hd.rc = MP4TAG_OK)])

\* A descent from meta that records where meta is but not that it was found.
parse_meta_unflagged(w, k, meta, info) ==
    parse_hdlr(find_child_box(w, k, meta.data_offset + 4,
                              Max(meta.data_size - 4, 0), MP4_BOX_HDLR),
               k, meta,
               [info EXCEPT !.meta_offset = meta.offset,
                            !.meta_size = meta.size])

\* The descent of mp4_parse_structure from meta: hdlr, ilst, trailing free.
parse_meta(w, k, meta, info) ==
    parse_hdlr(find_child_box(w, k, meta.data_offset + 4,
                              Max(meta.data_size - 4, 0), MP4_BOX_HDLR),
               k, meta,
               [info EXCEPT !.has_meta = TRUE, !.meta_offset = meta.offset,
                            !.meta_size = meta.size])

\* The end of mp4_parse_structure.
parse_valid(pm) ==
    [w |-> pm.w, rc |-> MP4TAG_OK, info |-> [pm.info EXCEPT !.valid = TRUE]]

\* The meta mt looked for in udta.
parse_udta_meta(mt, k, info) ==
    IF mt.rc # MP4TAG_OK THEN parse_valid([w |-> mt.w, info |-> info])
    ELSE parse_valid(parse_meta(mt.w, k, mt.found, info))

\* The udta ud looked for in moov.
parse_moov_udta(ud, k, info) ==
    IF ud.rc # MP4TAG_OK THEN parse_valid([w |-> ud.w, info |-> info])
    ELSE parse_udta_meta(
             find_child_box(ud.w, k, ud.found.data_offset, ud.found.data_size,
                            MP4_BOX_META),
             k,
             [info EXCEPT !.has_udta = TRUE, !.udta_offset = ud.found.offset,
                          !.udta_size = ud.found.size])

\* The moov header mv read again.
parse_moov(mv, k, info) ==
    IF mv.rc # 0 THEN [w |-> mv.w, rc |-> mv.rc, info |-> info]
    ELSE parse_moov_udta(
             find_child_box(mv.w, k, mv.box.data_offset, mv.box.data_size,
                            MP4_BOX_UDTA),
             k, info)

\* The top-level scan sc done.
parse_top_level(sc, k) ==
    IF sc.info.moov_offset < 0
    THEN [w |-> sc.w, rc |-> MP4TAG_ERR_NOT_MP4, info |-> sc.info]
    ELSE parse_moov(
             mp4_read_box_header(file_seek(sc.w, k, sc.info.moov_offset), k),
             k, sc.info)

\* mp4_parse_structure: the FileMap of the file behind handle k.  info is
\* what the caller's mp4_file_info_t holds when the function returns, on
\* every path (it is zeroed first and filled as the parse goes).
mp4_parse_structure(w, k) ==
    IF w[k].isnull THEN [w |-> w, rc |-> MP4TAG_ERR_INVALID_ARG, info |-> ZeroInfo]
    ELSE IF file_size(w[k]) < 8
    THEN [w |-> w, rc |-> MP4TAG_ERR_TRUNCATED,
          info |-> [ZeroInfo EXCEPT !.ftyp_offset = -1, !.moov_offset = -1,
                                    !.mdat_offset = -1]]
    ELSE parse_top_level(
             scan_top_level(w, k, 0, file_size(w[k]),
                            [ZeroInfo EXCEPT !.ftyp_offset = -1,
                                             !.moov_offset = -1,
                                             !.mdat_offset = -1]),
             k)

(***************************************************************************)
(* String utilities (util/string_util.c)                                   *)
(***************************************************************************)
ToUpper(c) == IF c >= 97 /\ c <= 122 THEN c - 32 ELSE c

\* A comparison that tells upper case from lower case.
str_cmp_exact(a, b) == IF a = b THEN 0 ELSE 1

\* str_casecmp: 0 iff the strings are equal up to ASCII case.
str_casecmp(a, b) ==
    IF a = Null \/ b = Null THEN (IF a = b THEN 0 ELSE 1)
    ELSE IF Len(a) = Len(b) /\ \A i \in 1..Len(a) : ToUpper(a[i]) = ToUpper(b[i])
    THEN 0 ELSE 1

\* str_copy into a buffer of dst_size bytes: 0 when src and its terminator
\* fit, -1 when the copy was truncated.
str_copy(dst_size, src) ==
    IF dst_size = 0 THEN [rc |-> -1, dst |-> <<>>]
    ELSE IF src = Null THEN [rc |-> 0, dst |-> <<>>]
    ELSE IF Len(src) >= dst_size
    THEN [rc |-> -1, dst |-> SubSeq(src, 1, dst_size - 1)]
    ELSE [rc |-> 0, dst |-> src]

(***************************************************************************)
(* Tag name <-> FourCC mapping (mp4/mp4_tags.c)                            *)
(***************************************************************************)
g_tag_map ==
    <<
       (* TITLE *)
       [name |-> <<84, 73, 84, 76, 69>>,
        fourcc |-> MP4_TAG_NAM],
       (* ARTIST *)
       [name |-> <<65, 82, 84, 73, 83, 84>>,
        fourcc |-> MP4_TAG_ART],
       (* ALBUM *)
       [name |-> <<65, 76, 66, 85, 77>>,
        fourcc |-> <<169, 97, 108, 98>>]   (* MP4_TAG_ALB *),
       (* ALBUM_ARTIST *)
       [name |-> <<65, 76, 66, 85, 77, 95, 65, 82, 84, 73, 83, 84>>,
        fourcc |-> <<97, 65, 82, 84>>]   (* MP4_TAG_AART *),
       (* DATE_RELEASED *)
       [name |-> <<68, 65, 84, 69, 95, 82, 69, 76, 69, 65, 83, 69, 68>>,
        fourcc |-> <<169, 100, 97, 121>>]   (* MP4_TAG_DAY *),
       (* TRACK_NUMBER *)
       [name |-> <<84, 82, 65, 67, 75, 95, 78, 85, 77, 66, 69, 82>>,
        fourcc |-> MP4_TAG_TRKN],
       (* DISC_NUMBER *)
       [name |-> <<68, 73, 83, 67, 95, 78, 85, 77, 66, 69, 82>>,
        fourcc |-> MP4_TAG_DISK],
       (* GENRE *)
       [name |-> <<71, 69, 78, 82, 69>>,
        fourcc |-> <<169, 103, 101, 110>>]   (* MP4_TAG_GEN *),
       (* COMPOSER *)
       [name |-> <<67, 79, 77, 80, 79, 83, 69, 82>>,
        fourcc |-> <<169, 119, 114, 116>>]   (* MP4_TAG_WRT *),
       (* COMMENT *)
       [name |-> <<67, 79, 77, 77, 69, 78, 84>>,
        fourcc |-> <<169, 99, 109, 116>>]   (* MP4_TAG_CMT *),
       (* ENCODER *)
       [name |-> <<69, 78, 67, 79, 68, 69, 82>>,
        fourcc |-> <<169, 116, 111, 111>>]   (* MP4_TAG_TOO *),
       (* COPYRIGHT *)
       [name |-> <<67, 79, 80, 89, 82, 73, 71, 72, 84>>,
        fourcc |-> <<99, 112, 114, 116>>]   (* MP4_TAG_CPRT *),
       (* BPM *)
       [name |-> <<66, 80, 77>>,
        fourcc |-> MP4_TAG_TMPO],
       (* LYRICS *)
       [name |-> <<76, 89, 82, 73, 67, 83>>,
        fourcc |-> <<169, 108, 121, 114>>]   (* MP4_TAG_LYR *),
       (* GROUPING *)
       [name |-> <<71, 82, 79, 85, 80, 73, 78, 71>>,
        fourcc |-> <<169, 103, 114, 112>>]   (* MP4_TAG_GRP *),
       (* DESCRIPTION *)
       [name |-> <<68, 69, 83, 67, 82, 73, 80, 84, 73, 79, 78>>,
        fourcc |-> <<100, 101, 115, 99>>]   (* MP4_TAG_DESC *),
       (* COVER_ART *)
       [name |-> <<67, 79, 86, 69, 82, 95, 65, 82, 84>>,
        fourcc |-> MP4_TAG_COVR],
       (* COMPILATION *)
       [name |-> <<67, 79, 77, 80, 73, 76, 65, 84, 73, 79, 78>>,
        fourcc |-> MP4_TAG_CPIL],
       (* GAPLESS *)
       [name |-> <<71, 65, 80, 76, 69, 83, 83>>,
        fourcc |-> MP4_TAG_PGAP],
       (* SORT_NAME *)
       [name |-> <<83, 79, 82, 84, 95, 78, 65, 77, 69>>,
        fourcc |-> <<115, 111, 110, 109>>]   (* MP4_TAG_SONM *),
       (* SORT_ARTIST *)
       [name |-> <<83, 79, 82, 84, 95, 65, 82, 84, 73, 83, 84>>,
        fourcc |-> <<115, 111, 97, 114>>]   (* MP4_TAG_SOAR *),
       (* SORT_ALBUM *)
       [name |-> <<83, 79, 82, 84, 95, 65, 76, 66, 85, 77>>,
        fourcc |-> <<115, 111, 97, 108>>]   (* MP4_TAG_SOAL *),
       (* SORT_ALBUM_ARTIST *)
       [name |-> <<83, 79, 82, 84, 95, 65, 76, 66, 85, 77, 95, 65, 82, 84, 73, 83, 84>>,
        fourcc |-> <<115, 111, 97, 97>>]   (* MP4_TAG_SOAA *),
       (* SORT_COMPOSER *)
       [name |-> <<83, 79, 82, 84, 95, 67, 79, 77, 80, 79, 83, 69, 82>>,
        fourcc |-> <<115, 111, 99, 111>>]   (* MP4_TAG_SOCO *)
    >>

\* The index of the first entry of g_tag_map that satisfies P, 0 if none.
RECURSIVE first_mapping(_, _)
first_mapping(P(_), i) ==
    IF i > Len(g_tag_map) THEN 0
    ELSE IF P(g_tag_map[i]) THEN i
    ELSE first_mapping(P, i + 1)

\* The result of mp4_tag_name_to_fourcc when entry i matched (0: none did).
name_to_fourcc_at(i, name) ==
    IF i > 0 THEN g_tag_map[i].fourcc
    ELSE IF Len(name) = 4 THEN mp4_str_to_fourcc(name)
    ELSE <<0, 0, 0, 0>>

\* mp4_tag_name_to_fourcc: <<0,0,0,0>> stands for the code's 0.
mp4_tag_name_to_fourcc(name) ==
    IF name = Null THEN <<0, 0, 0, 0>>
    ELSE LET ByName(m) == str_casecmp(name, m.name) = 0
         IN  name_to_fourcc_at(first_mapping(ByName, 1), name)

\* The result of mp4_tag_fourcc_to_name when entry i matched.
fourcc_to_name_at(i) == IF i > 0 THEN g_tag_map[i].name ELSE Null

\* mp4_tag_fourcc_to_name: the first canonical name, Null when unmapped.
mp4_tag_fourcc_to_name(fourcc) ==
    LET ByCode(m) == m.fourcc = fourcc
    IN  fourcc_to_name_at(first_mapping(ByCode, 1))

(***************************************************************************)
(* Decimal text: what snprintf("%u") writes and sscanf("%u") reads          *)
(***************************************************************************)
RECURSIVE Dec(_)
Dec(n) == IF n < 10 THEN <<48 + n>> ELSE Dec(n \div 10) \o <<48 + (n % 10)>>

IsSpace(c) == c \in {32, 9, 10, 11, 12, 13}
IsDigit(c) == c >= 48 /\ c <= 57

RECURSIVE SkipSpace(_)
SkipSpace(s) == IF s # <<>> /\ IsSpace(s[1]) THEN SkipSpace(Tail(s)) ELSE s

RECURSIVE ScanDigits(_, _)
ScanDigits(s, acc) ==
    IF s # <<>> /\ IsDigit(s[1])
    THEN ScanDigits(Tail(s), Min(Huge, acc * 10 + (s[1] - 48)))
    ELSE [val |-> acc, rest |-> s]

\* The digits d scanned at the start of a %u conversion.
ScanU_digits(d) == [ok |-> TRUE, val |-> d.val, rest |-> d.rest]

\* The text t left after the white space of a %u conversion.
ScanU_at(t) ==
    IF t # <<>> /\ IsDigit(t[1]) THEN ScanU_digits(ScanDigits(t, 0))
    ELSE [ok |-> FALSE, val |-> 0, rest |-> t]

\* One %u conversion: white space is skipped, then at least one digit is
\* needed (values of the model carry no sign).
ScanU(s) == ScanU_at(SkipSpace(s))

\* The second conversion b of "%u/%u", after the first gave num.
ScanPair_total(num, b) == [num |-> num, total |-> IF b.ok THEN b.val ELSE 0]

\* The first conversion a of "%u/%u".
ScanPair_num(a) ==
    IF ~a.ok THEN [num |-> 0, total |-> 0]
    ELSE IF a.rest # <<>> /\ a.rest[1] = 47
    THEN ScanPair_total(a.val, ScanU(Tail(a.rest)))
    ELSE [num |-> a.val, total |-> 0]

\* sscanf(value, "%u/%u", &num, &total), then sscanf(value, "%u", &num) when
\* nothing was converted: num and total keep 0 unless assigned.
ScanPair(value) == ScanPair_num(ScanU(value))

\* sscanf(value, "%u", &v) into v = 0, for a value that may be NULL.
ScanUnsigned(value) == IF value # Null THEN ScanU(value).val ELSE 0

\* The big-endian unsigned value of up to 8 bytes.
RECURSIVE BEU(_, _)
BEU(b, acc) ==
    IF b = <<>> THEN acc
    ELSE BEU(Tail(b), IF acc >= 4194304 THEN Huge ELSE acc * 256 + b[1])

(***************************************************************************)
(* The item codec (mp4/mp4_tags.c).  A collection is the sequence of its   *)
(* tags; a tag carries its target type and the sequence of its simple      *)
(* tags; a simple tag carries name, value, binary (<<>> for no payload),   *)
(* language and is_default.                                                *)
(***************************************************************************)
SimpleTag(name, value) ==
    [name |-> name, value |-> value, binary |-> <<>>, language |-> Null,
     is_default |-> 0]

\* The simple tags of a collection in iteration order.
RECURSIVE AllSimpleTags(_)
AllSimpleTags(coll) ==
    IF coll = <<>> THEN <<>>
    ELSE coll[1].simple_tags \o AllSimpleTags(Tail(coll))

\* The simple tag parse_ilst_item allocates: name set, is_default 1 at the end.
NewItem(name) == [SimpleTag(name, Null) EXCEPT !.is_default = 1]

\* The text of a well-known integer atom whose payload is b.
int_atom_text(item_type, b) ==
    IF item_type \in {MP4_TAG_TRKN, MP4_TAG_DISK} /\ Len(b) >= 6
    THEN IF b[5] * 256 + b[6] > 0
         THEN Dec(b[3] * 256 + b[4]) \o <<47>> \o Dec(b[5] * 256 + b[6])
         ELSE Dec(b[3] * 256 + b[4])
    ELSE IF item_type = MP4_TAG_TMPO /\ Len(b) = 2 THEN Dec(b[1] * 256 + b[2])
    ELSE IF Len(b) = 1 THEN Dec(b[1])
    ELSE Dec(BEU(b, 0))

\* The payload r read for a well-known integer atom.
item_int_atom(r, item_type, name) ==
    IF r.rc # 0 THEN [w |-> r.w, rc |-> r.rc, st |-> NewItem(name)]
    ELSE [w |-> r.w, rc |-> MP4TAG_OK,
          st |-> [NewItem(name) EXCEPT !.value = int_atom_text(item_type, r.data)]]

\* The payload r read as text.
item_text(r, name) ==
    IF r.rc # 0 THEN [w |-> r.w, rc |-> r.rc, st |-> NewItem(name)]
    ELSE [w |-> r.w, rc |-> MP4TAG_OK,
          st |-> [NewItem(name) EXCEPT !.value = CStr(r.data)]]

\* The payload r read as a generic integer.
item_integer(r, name) ==
    IF r.rc # 0 THEN [w |-> r.w, rc |-> r.rc, st |-> NewItem(name)]
    ELSE [w |-> r.w, rc |-> MP4TAG_OK,
          st |-> [NewItem(name) EXCEPT !.value = Dec(BEU(r.data, 0))]]

\* The payload r read as binary data.
item_binary(r, name) ==
    IF r.rc # 0 THEN [w |-> r.w, rc |-> r.rc, st |-> NewItem(name)]
    ELSE [w |-> r.w, rc |-> MP4TAG_OK,
          st |-> [NewItem(name) EXCEPT !.binary = r.data]]

\* The value parse_ilst_item builds from a data box: value_size payload
\* bytes follow the 8-byte data header already read.
item_value(w, k, item_type, data_type, value_size, name) ==
    IF item_type \in {MP4_TAG_TRKN, MP4_TAG_DISK, MP4_TAG_TMPO, MP4_TAG_CPIL,
                      MP4_TAG_PGAP}
       /\ value_size > 0 /\ value_size <= 8
    THEN item_int_atom(file_read(w, k, value_size), item_type, name)
    ELSE IF data_type = MP4_DATA_UTF8 \/ data_type = MP4_DATA_IMPLICIT
    THEN IF value_size > 0 THEN item_text(file_read(w, k, value_size), name)
         ELSE [w |-> w, rc |-> MP4TAG_OK, st |-> NewItem(name)]
    ELSE IF data_type = MP4_DATA_INTEGER
    THEN IF value_size > 0 /\ value_size <= 8
         THEN item_integer(file_read(w, k, value_size), name)
         ELSE [w |-> w, rc |-> MP4TAG_OK, st |-> NewItem(name)]
    ELSE IF value_size > 0 THEN item_binary(file_read(w, k, value_size), name)
         ELSE [w |-> w, rc |-> MP4TAG_OK, st |-> NewItem(name)]

\* The name of an item: the canonical name of its FourCC, else the FourCC.
item_name(mapped, fourcc) ==
    IF mapped # Null THEN mapped ELSE mp4_fourcc_to_str(fourcc)

\* The 8 bytes d (type indicator, locale) read at the start of a data box.
item_data_header(d, k, item_box, value_size) ==
    IF d.rc # 0 THEN [w |-> d.w, rc |-> d.rc, st |-> SimpleTag(Null, Null)]
    ELSE item_value(d.w, k, item_box.type, BE32(SubSeq(d.data, 1, 4)),
                    value_size,
                    item_name(mp4_tag_fourcc_to_name(item_box.type),
                              item_box.type))

RECURSIVE parse_ilst_item_loop(_, _, _, _, _)

\* One child header h of an item.
item_child(h, k, item_box, end) ==
    IF h.rc # 0 THEN [w |-> h.w, rc |-> h.rc, st |-> SimpleTag(Null, Null)]
    ELSE IF h.box.size < 8
    THEN [w |-> h.w, rc |-> MP4TAG_ERR_TAG_NOT_FOUND, st |-> SimpleTag(Null, Null)]
    ELSE IF h.box.type = MP4_BOX_DATA /\ h.box.data_size >= 8
    THEN item_data_header(file_read(h.w, k, 8), k, item_box,
                          h.box.data_size - 8)
    ELSE parse_ilst_item_loop(h.w, k, item_box, h.box.offset + h.box.size, end)

\* The loop of parse_ilst_item: the first data child with at least 8
\* payload bytes gives the value.
parse_ilst_item_loop(w, k, item_box, pos, end) ==
    IF pos + 8 > end
    THEN [w |-> w, rc |-> MP4TAG_ERR_TAG_NOT_FOUND, st |-> SimpleTag(Null, Null)]
    ELSE item_child(mp4_read_box_header(file_seek(w, k, pos), k), k, item_box,
                    end)

parse_ilst_item(w, k, item_box) ==
    parse_ilst_item_loop(w, k, item_box, item_box.data_offset,
                         item_box.offset + item_box.size)

RECURSIVE parse_ilst_loop(_, _, _, _, _)

\* The item it parsed from `box`: appended when it parsed.
ilst_item_parsed(it, k, box, end, sts) ==
    parse_ilst_loop(it.w, k, box.offset + box.size, end,
                    IF it.rc = MP4TAG_OK THEN Append(sts, it.st) ELSE sts)

\* One item header h of the ilst.
ilst_item_header(h, k, end, sts) ==
    IF h.rc # 0 \/ h.box.size < 8 THEN [w |-> h.w, sts |-> sts]
    ELSE ilst_item_parsed(parse_ilst_item(h.w, k, h.box), k, h.box, end, sts)

\* The item walk of mp4_tags_parse_ilst: items that fail to parse are left
\* out, a header that cannot be read or is shorter than 8 ends the walk.
parse_ilst_loop(w, k, pos, end, sts) ==
    IF pos + 8 > end THEN [w |-> w, sts |-> sts]
    ELSE ilst_item_header(mp4_read_box_header(file_seek(w, k, pos), k), k, end,
                          sts)

\* The collection built from the walk r.
ilst_collection(r) ==
    [w |-> r.w, rc |-> MP4TAG_OK,
     coll |-> << [target_type |-> MP4TAG_TARGET_ALBUM, simple_tags |-> r.sts] >>]

\* mp4_tags_parse_ilst: one ALBUM tag holding the decoded items.
mp4_tags_parse_ilst(w, k, info) ==
    IF w[k].isnull THEN [w |-> w, rc |-> MP4TAG_ERR_INVALID_ARG, coll |-> <<>>]
    ELSE IF ~info.has_ilst THEN [w |-> w, rc |-> MP4TAG_ERR_NO_TAGS, coll |-> <<>>]
    ELSE ilst_collection(parse_ilst_loop(w, k, info.ilst_offset + 8,
                                         info.ilst_offset + info.ilst_size,
                                         <<>>))

\* The 8 bytes of a track or disc number.
pair_content(p) ==
    << 0, 0, (p.num \div 256) % 256, p.num % 256,
       (p.total \div 256) % 256, p.total % 256, 0, 0 >>

\* The 2 bytes of a 16-bit number.
u16_content(v) == << (v \div 256) % 256, v % 256 >>

\* The 1 byte of a boolean.
bool_content(v) == << IF v # 0 THEN 1 ELSE 0 >>

\* The payload and type indicator serialize_tag_item chooses for a FourCC;
\* skip when the item is left out.
item_payload(st, fourcc) ==
    IF fourcc = MP4_TAG_TRKN \/ fourcc = MP4_TAG_DISK
    THEN [skip |-> FALSE, data_type |-> MP4_DATA_IMPLICIT,
          content |-> IF st.value # Null THEN pair_content(ScanPair(st.value))
                      ELSE pair_content([num |-> 0, total |-> 0])]
    ELSE IF fourcc = MP4_TAG_TMPO
    THEN [skip |-> FALSE, data_type |-> MP4_DATA_INTEGER,
          content |-> u16_content(ScanUnsigned(st.value))]
    ELSE IF fourcc = MP4_TAG_CPIL \/ fourcc = MP4_TAG_PGAP
    THEN [skip |-> FALSE, data_type |-> MP4_DATA_INTEGER,
          content |-> bool_content(ScanUnsigned(st.value))]
    ELSE IF fourcc = MP4_TAG_COVR
    THEN IF Len(st.binary) > 0
         THEN [skip |-> FALSE,
               data_type |-> IF Len(st.binary) >= 4 /\ st.binary[1] = 137
                                /\ st.binary[2] = 80
                             THEN MP4_DATA_PNG ELSE MP4_DATA_JPEG,
               content |-> st.binary]
         ELSE [skip |-> TRUE, data_type |-> MP4_DATA_UTF8, content |-> <<>>]
    ELSE IF fourcc = MP4_TAG_GNRE
    THEN [skip |-> FALSE, data_type |-> MP4_DATA_IMPLICIT,
          content |-> u16_content(ScanUnsigned(st.value))]
    ELSE [skip |-> FALSE, data_type |-> MP4_DATA_UTF8,
          content |-> IF st.value # Null THEN st.value ELSE <<>>]

\* The item box written for payload p: item header, data header, type
\* indicator, locale, content.
item_bytes(fourcc, p) ==
    IF p.skip THEN <<>>
    ELSE mp4_write_box_header(fourcc, 8 + (8 + 4 + 4 + Len(p.content)))
         \o mp4_write_box_header(MP4_BOX_DATA, 8 + 4 + 4 + Len(p.content))
         \o buffer_append_be32(p.data_type)
         \o buffer_append_be32(0)
         \o p.content

\* The FourCC serialize_tag_item resolves: f0 is what the name maps to.
item_fourcc(f0, name) ==
    IF f0 = <<0, 0, 0, 0>> /\ name # Null /\ Len(name) = 4
    THEN mp4_str_to_fourcc(name) ELSE f0

\* The bytes for a simple tag whose FourCC is resolved.
item_for(st, fourcc) ==
    IF fourcc = <<0, 0, 0, 0>> THEN <<>>
    ELSE item_bytes(fourcc, item_payload(st, fourcc))

\* serialize_tag_item: the bytes appended for one simple tag (none when the
\* name resolves to no FourCC or a cover has no image).
serialize_tag_item(st) ==
    item_for(st, item_fourcc(mp4_tag_name_to_fourcc(st.name), st.name))

RECURSIVE serialize_items(_)
serialize_items(sts) ==
    IF sts = <<>> THEN <<>>
    ELSE (IF sts[1].name = Null THEN <<>> ELSE serialize_tag_item(sts[1]))
         \o serialize_items(Tail(sts))

\* mp4_tags_serialize_ilst: the ilst payload (items only, no ilst header).
mp4_tags_serialize_ilst(coll) == serialize_items(AllSimpleTags(coll))

\* The hdlr payload mp4_tags_build_udta writes (25 bytes).
hdlr_data ==
    << 0, 0, 0, 0,  0, 0, 0, 0,  109, 100, 105, 114,  97, 112, 112, 108,
       0, 0, 0, 0,  0, 0, 0, 0,  0 >>

\* udta { meta { version+flags; hdlr; ilst } } around a serialized ilst.
udta_around(ilst_content) ==
    LET ilst_size == 8 + Len(ilst_content)
        hdlr_size == 8 + Len(hdlr_data)
        meta_size == 8 + (4 + hdlr_size + ilst_size)
        udta_size == 8 + meta_size
    IN  mp4_write_box_header(MP4_BOX_UDTA, udta_size)
        \o mp4_write_box_header(MP4_BOX_META, meta_size)
        \o buffer_append_be32(0)
        \o mp4_write_box_header(MP4_BOX_HDLR, hdlr_size)
        \o hdlr_data
        \o mp4_write_box_header(MP4_BOX_ILST, ilst_size)
        \o ilst_content

\* mp4_tags_build_udta
mp4_tags_build_udta(coll) == udta_around(mp4_tags_serialize_ilst(coll))

(***************************************************************************)
(* The context (struct mp4tag_context, mp4tag.c).  The world w of a call   *)
(* also carries the context's fields: path ("none" for NULL), writable,    *)
(* info, cached_tags; nalloc counts the collections the parser has         *)
(* allocated and freed holds the ids of those released, so that a pointer  *)
(* is told from another by its id.                                         *)
(***************************************************************************)
NullColl == [isnull |-> TRUE, id |-> 0, tags |-> <<>>]

\* invalidate_cache: the cached collection is freed and forgotten.
invalidate_cache(w) ==
    IF ~w.cached_tags.isnull
    THEN [w EXCEPT !.freed = @ \cup {w.cached_tags.id},
                   !.cached_tags = NullColl]
    ELSE w

\* The world after the system call named c was made: hit holds the names of
\* the system calls of the fault plan's alphabet the call has made.
Tried(w, c) == [w EXCEPT !.hit = @ \cup {c}]

\* file_open_read / file_open_rw on the context's path.
file_open(w, name, writable) ==
    IF name \in w.plan.sys THEN NullHandle
    ELSE file_open_common(w.disk, "orig", writable)

\* mp4tag_close
mp4tag_close(w) ==
    [invalidate_cache(w) EXCEPT !.fh = NullHandle, !.path = "none",
                                !.writable = FALSE, !.info = ZeroInfo]

\* The end of an open: ps is the parse of the structure.
open_parsed(ps) ==
    IF ps.rc # MP4TAG_OK
    THEN [w |-> mp4tag_close([ps.w EXCEPT !.info = ps.info]), rc |-> ps.rc]
    ELSE [w |-> [ps.w EXCEPT !.info = ps.info], rc |-> MP4TAG_OK]

\* v is the validation of the ftyp box.
open_validated(v) ==
    IF v.rc # MP4TAG_OK THEN [w |-> mp4tag_close(v.w), rc |-> v.rc]
    ELSE open_parsed(mp4_parse_structure(v.w, "fh"))

\* h is the handle file_open_read or file_open_rw gave.
open_handle(w, h, path, writable) ==
    IF h.isnull THEN [w |-> w, rc |-> MP4TAG_ERR_IO]
    ELSE open_validated(
             mp4_validate_ftyp([w EXCEPT !.fh = h, !.path = path,
                                         !.writable = writable], "fh"))

\* mp4tag_open (writable = FALSE) and mp4tag_open_rw (writable = TRUE).
mp4tag_open_common(w, path, writable) ==
    IF path = "none" THEN [w |-> w, rc |-> MP4TAG_ERR_INVALID_ARG]
    ELSE IF ~w.fh.isnull THEN [w |-> w, rc |-> MP4TAG_ERR_ALREADY_OPEN]
    ELSE open_handle(Tried(w, "open"), file_open(w, "open", writable), path,
                     writable)

mp4tag_open(w, path) == mp4tag_open_common(w, path, FALSE)

mp4tag_open_rw(w, path) == mp4tag_open_common(w, path, TRUE)

\* The collection a parse allocates, with the next id.
NewColl(id, tags) == [isnull |-> FALSE, id |-> id, tags |-> tags]

\* p is the parse of the ilst: its collection is cached.
read_tags_parsed(p) ==
    IF p.rc # MP4TAG_OK THEN [w |-> p.w, rc |-> p.rc, tags |-> NullColl]
    ELSE [w |-> [p.w EXCEPT !.cached_tags = NewColl(p.w.nalloc + 1, p.coll),
                            !.nalloc = @ + 1],
          rc |-> MP4TAG_OK, tags |-> NewColl(p.w.nalloc + 1, p.coll)]

\* mp4tag_read_tags: the cached collection, or a fresh parse that is cached.
mp4tag_read_tags(w) ==
    IF w.fh.isnull THEN [w |-> w, rc |-> MP4TAG_ERR_NOT_OPEN, tags |-> NullColl]
    ELSE IF ~w.cached_tags.isnull
    THEN [w |-> w, rc |-> MP4TAG_OK, tags |-> w.cached_tags]
    ELSE IF ~w.info.has_ilst
    THEN [w |-> w, rc |-> MP4TAG_ERR_NO_TAGS, tags |-> NullColl]
    ELSE read_tags_parsed(mp4_tags_parse_ilst(w, "fh", w.info))

\* The first simple tag that has a value and whose name matches, as a
\* one-element sequence; <<>> when there is none.
RECURSIVE find_simple_tag(_, _)
find_simple_tag(sts, name) ==
    IF sts = <<>> THEN <<>>
    ELSE IF sts[1].name # Null /\ sts[1].value # Null
            /\ str_casecmp(sts[1].name, name) = 0
    THEN <<sts[1]>>
    ELSE find_simple_tag(Tail(sts), name)

\* c is the copy of the value into the caller's buffer.
read_tag_copied(w, c) ==
    [w |-> w,
     rc |-> IF c.rc = 0 THEN MP4TAG_OK ELSE MP4TAG_ERR_TAG_TOO_LARGE,
     value |-> c.dst]

\* hit is the matching simple tag, if any.
read_tag_found(w, hit, size) ==
    IF hit = <<>>
    THEN [w |-> w, rc |-> MP4TAG_ERR_TAG_NOT_FOUND, value |-> Null]
    ELSE read_tag_copied(w, str_copy(size, hit[1].value))

\* r is what mp4tag_read_tags returned.
read_tag_in(r, name, size) ==
    IF r.rc # MP4TAG_OK THEN [w |-> r.w, rc |-> r.rc, value |-> Null]
    ELSE read_tag_found(r.w, find_simple_tag(AllSimpleTags(r.tags.tags), name),
                        size)

\* mp4tag_read_tag_string into a buffer of `size` bytes.
mp4tag_read_tag_string(w, name, size) ==
    IF name = Null \/ size = 0
    THEN [w |-> w, rc |-> MP4TAG_ERR_INVALID_ARG, value |-> Null]
    ELSE read_tag_in(mp4tag_read_tags(w), name, size)

(***************************************************************************)
(* The two-strategy writer (mp4tag.c).  Three fields of the world record   *)
(* what a call did: inplace ("none", "ok", "nospace" or the name of the    *)
(* write that failed), renamed (rename() replaced the file) and cut (a     *)
(* copy loop of rewrite_file left its loop early).                         *)
(***************************************************************************)
ZEROS_CHUNK == 4096
COPY_BUF_SIZE == 65536

RECURSIVE write_zeros(_, _, _)

\* r is the write of one chunk of zeros.
write_zeros_chunk(r, k, left) ==
    IF r.rc # 0 THEN [w |-> r.w, rc |-> MP4TAG_ERR_WRITE_FAILED]
    ELSE write_zeros(r.w, k, left)

\* write_zeros
write_zeros(w, k, count) ==
    IF count <= 0 THEN [w |-> w, rc |-> MP4TAG_OK]
    ELSE write_zeros_chunk(file_write(w, k, Zeros(Min(count, ZEROS_CHUNK))), k,
                           count - Min(count, ZEROS_CHUNK))

\* The end of try_inplace: fsync, then ps, the new parse of the structure
\* (the results of both are ignored).
inplace_parsed(ps) ==
    [w |-> [ps.w EXCEPT !.info = ps.info, !.inplace = "ok"], rc |-> MP4TAG_OK]

\* p is the write of the padding.
inplace_padding(p) ==
    IF p.rc # 0 THEN [w |-> [p.w EXCEPT !.inplace = "padding"], rc |-> p.rc]
    ELSE inplace_parsed(mp4_parse_structure(Tried(p.w, "sync"), "fh"))

\* c is the write of the ilst content; remaining bytes are left to fill.
inplace_content(c, remaining) ==
    IF c.rc # 0 THEN [w |-> [c.w EXCEPT !.inplace = "content"], rc |-> c.rc]
    ELSE IF remaining >= 8
    THEN inplace_padding(file_write(c.w, "fh", mp4_write_free_box(remaining)))
    ELSE IF remaining > 0
    THEN inplace_padding(write_zeros(c.w, "fh", remaining))
    ELSE inplace_padding([w |-> c.w, rc |-> 0])

\* h is the write of the ilst header.
inplace_header(h, ilst_content, remaining) ==
    IF h.rc # 0 THEN [w |-> [h.w EXCEPT !.inplace = "header"], rc |-> h.rc]
    ELSE inplace_content(file_write(h.w, "fh", ilst_content), remaining)

\* A try_inplace that takes the 8 bytes after the free box as its own too.
inplace_available_and_next_header(info) ==
    info.ilst_size
    + (IF info.has_free_after_ilst THEN info.free_after_ilst_size ELSE 0) + 8

\* The space try_inplace has: the ilst and the free box that follows it.
inplace_available(info) ==
    info.ilst_size
    + (IF info.has_free_after_ilst THEN info.free_after_ilst_size ELSE 0)

\* try_inplace: the new ilst over the old one and its trailing free box.
try_inplace(w, ilst_content) ==
    IF ~w.info.has_ilst
    THEN [w |-> [w EXCEPT !.inplace = "nospace"], rc |-> MP4TAG_ERR_NO_SPACE]
    ELSE IF 8 + Len(ilst_content) > inplace_available(w.info)
    THEN [w |-> [w EXCEPT !.inplace = "nospace"], rc |-> MP4TAG_ERR_NO_SPACE]
    ELSE inplace_header(
             file_write(file_seek(w, "fh", w.info.ilst_offset), "fh",
                        mp4_write_box_header(MP4_BOX_ILST,
                                             8 + Len(ilst_content))),
             ilst_content,
             inplace_available(w.info) - (8 + Len(ilst_content)))

RECURSIVE copy_bytes(_, _)

\* wr is the write of n bytes read.
copy_written(wr, bytes_left, n) ==
    IF wr.rc # 0 THEN [w |-> wr.w, rc |-> wr.rc]
    ELSE copy_bytes(wr.w, bytes_left - n)

\* r is one read of the copy loop.
copy_read(r, bytes_left) ==
    IF r.n <= 0 THEN [w |-> [r.w EXCEPT !.cut = TRUE], rc |-> 0]
    ELSE copy_written(file_write(r.w, "tmph", r.data), bytes_left, r.n)

\* The copy loop of rewrite_file: bytes_left bytes from the context's handle
\* to the scratch handle, in chunks; a read that returns nothing or fails
\* ends the loop.
copy_bytes(w, bytes_left) ==
    IF bytes_left <= 0 THEN [w |-> w, rc |-> 0]
    ELSE copy_read(file_read_partial(w, "fh", Min(bytes_left, COPY_BUF_SIZE)),
                   bytes_left)

RECURSIVE non_udta_total(_, _, _, _)

\* h is one child header of the first pass.
non_udta_child(h, moov_end, non_udta_size) ==
    IF h.rc # 0 \/ h.box.size < 8 THEN [w |-> h.w, size |-> non_udta_size]
    ELSE non_udta_total(h.w, h.box.offset + h.box.size, moov_end,
                        IF h.box.type # MP4_BOX_UDTA
                        THEN Min(Huge, non_udta_size + h.box.size)
                        ELSE non_udta_size)

\* First pass over the children of moov: the sizes of those that are not
\* udta, summed.
non_udta_total(w, moov_child_pos, moov_end, non_udta_size) ==
    IF moov_child_pos + 8 > moov_end THEN [w |-> w, size |-> non_udta_size]
    ELSE non_udta_child(
             mp4_read_box_header(file_seek(w, "fh", moov_child_pos), "fh"),
             moov_end, non_udta_size)

RECURSIVE copy_children(_, _, _)

\* c is the copy of one child.
child_copied(c, next, moov_end) ==
    IF c.rc # 0 THEN c ELSE copy_children(c.w, next, moov_end)

\* h is one child header of the second pass.
copy_child(h, moov_end) ==
    IF h.rc # 0 \/ h.box.size < 8 THEN [w |-> [h.w EXCEPT !.cut = TRUE], rc |-> 0]
    ELSE IF h.box.type # MP4_BOX_UDTA
    THEN child_copied(copy_bytes(file_seek(h.w, "fh", h.box.offset), h.box.size),
                      h.box.offset + h.box.size, moov_end)
    ELSE copy_children(h.w, h.box.offset + h.box.size, moov_end)

\* Second pass: every child that is not udta is copied to the scratch file.
copy_children(w, moov_child_pos, moov_end) ==
    IF moov_child_pos + 8 > moov_end THEN [w |-> w, rc |-> 0]
    ELSE copy_child(
             mp4_read_box_header(file_seek(w, "fh", moov_child_pos), "fh"),
             moov_end)

\* ch is the second pass: the new udta follows.
moov_children(ch, udta_buf) ==
    IF ch.rc # 0 THEN ch ELSE file_write(ch.w, "tmph", udta_buf)

\* hd is the write of the moov header.
moov_header(hd, box, udta_buf) ==
    IF hd.rc # 0 THEN hd
    ELSE moov_children(copy_children(hd.w, box.data_offset,
                                     box.offset + box.size),
                       udta_buf)

\* t is the first pass: the moov header carries the new size.
moov_sized(t, box, udta_buf) ==
    moov_header(file_write(t.w, "tmph",
                           mp4_write_box_header(MP4_BOX_MOOV,
                                                8 + t.size + Len(udta_buf))),
                box, udta_buf)

\* The moov branch: header with the new size, the other children, new udta.
rebuild_moov(w, box, udta_buf) ==
    moov_sized(non_udta_total(w, box.data_offset, box.offset + box.size, 0),
               box, udta_buf)

RECURSIVE copy_top_level(_, _, _, _)

\* b is the copy of one top-level box.
top_level_copied(b, next, src_size, udta_buf) ==
    IF b.rc # 0 THEN b ELSE copy_top_level(b.w, next, src_size, udta_buf)

\* h is one top-level header.
top_level_box(h, src_size, udta_buf) ==
    IF h.rc # 0 \/ h.box.size < 8 THEN [w |-> [h.w EXCEPT !.cut = TRUE], rc |-> 0]
    ELSE IF h.box.type = MP4_BOX_MOOV
    THEN top_level_copied(rebuild_moov(h.w, h.box, udta_buf),
                          h.box.offset + h.box.size, src_size, udta_buf)
    ELSE top_level_copied(
             copy_bytes(file_seek(h.w, "fh", h.box.offset), h.box.size),
             h.box.offset + h.box.size, src_size, udta_buf)

\* The top-level loop of rewrite_file.
copy_top_level(w, pos, src_size, udta_buf) ==
    IF pos >= src_size THEN [w |-> w, rc |-> 0]
    ELSE top_level_box(mp4_read_box_header(file_seek(w, "fh", pos), "fh"),
                       src_size, udta_buf)

\* The cleanup label: the scratch handle is closed and the file unlinked.
rewrite_cleanup(w) ==
    [w EXCEPT !.tmph = NullHandle, !.tmpx = FALSE, !.tmp = <<>>]

\* The open that follows rename(), in the mode the context was opened in.
rewrite_reopen(w) ==
    [Tried(w, "reopen") EXCEPT !.fh = file_open(w, "reopen", w.writable)]

\* A rewrite that leaves the FileMap as it was before the call.
rewrite_unparsed(ps) == [w |-> ps.w, rc |-> MP4TAG_OK]

\* ps is the parse of the reopened file (its result is ignored).
rewrite_parsed(ps) == [w |-> [ps.w EXCEPT !.info = ps.info], rc |-> MP4TAG_OK]

\* w is the world after rename() and the reopen.
rewrite_reopened(w) ==
    IF w.fh.isnull THEN [w |-> w, rc |-> MP4TAG_ERR_IO]
    ELSE rewrite_parsed(mp4_parse_structure(w, "fh"))

\* w is the world with both handles closed: rename() and reopen.
rewrite_rename(w) ==
    IF "rename" \in w.plan.sys
    THEN [w |-> rewrite_reopen(w), rc |-> MP4TAG_ERR_RENAME_FAILED]
    ELSE rewrite_reopened(
             rewrite_reopen([w EXCEPT !.disk = w.tmp, !.tmp = <<>>,
                                      !.tmpx = FALSE, !.renamed = TRUE]))

\* cp is the copy loop: sync, close both handles, rename.
rewrite_copied(cp) ==
    IF cp.rc # 0 THEN [w |-> rewrite_cleanup(cp.w), rc |-> cp.rc]
    ELSE IF file_sync(cp.w, "tmph") # 0
    THEN [w |-> rewrite_cleanup(Tried(cp.w, "sync")), rc |-> MP4TAG_ERR_IO]
    ELSE rewrite_rename([Tried(Tried(cp.w, "sync"), "rename") EXCEPT
                             !.tmph = NullHandle, !.fh = NullHandle])

\* w is the world with the scratch file created empty: it is opened.
rewrite_created(w, udta_buf) ==
    IF "open" \in w.plan.sys THEN [w |-> w, rc |-> MP4TAG_ERR_IO]
    ELSE rewrite_copied(
             copy_top_level([w EXCEPT !.tmph = file_open_common(<<>>, "tmp",
                                                                TRUE)],
                            0, file_size(w.fh), udta_buf))

\* rewrite_file: the file rebuilt in "<path>.tmp", then renamed over it.
rewrite_file(w, udta_buf) ==
    IF w.path = "none" THEN [w |-> w, rc |-> MP4TAG_ERR_INVALID_ARG]
    ELSE IF "create" \in w.plan.sys
    THEN [w |-> Tried(w, "create"), rc |-> MP4TAG_ERR_IO]
    ELSE rewrite_created([Tried(Tried(w, "create"), "open") EXCEPT
                              !.tmpx = TRUE, !.tmp = <<>>],
                         udta_buf)

\* A write_tags that returns what try_inplace did, with no rewrite.
write_tags_inplace_no_rewrite(ip, tags) == [w |-> ip.w, rc |-> ip.rc]

\* ip is what try_inplace returned: anything but OK goes on to the rewrite.
write_tags_inplace(ip, tags) ==
    IF ip.rc = MP4TAG_OK THEN [w |-> ip.w, rc |-> MP4TAG_OK]
    ELSE rewrite_file(ip.w, mp4_tags_build_udta(tags.tags))

\* A write_tags that goes to the rewrite whatever room the ilst has.
write_tags_always_rewrite(w, tags) ==
    rewrite_file(w, mp4_tags_build_udta(tags.tags))

\* w is the world with the cache invalidated.
write_tags_checked(w, tags) ==
    IF w.info.has_ilst
    THEN write_tags_inplace(try_inplace(w, mp4_tags_serialize_ilst(tags.tags)),
                            tags)
    ELSE rewrite_file(w, mp4_tags_build_udta(tags.tags))

\* mp4tag_write_tags: in place when the new ilst fits, else by rewrite.
mp4tag_write_tags(w, tags) ==
    IF tags.isnull THEN [w |-> w, rc |-> MP4TAG_ERR_INVALID_ARG]
    ELSE IF w.fh.isnull THEN [w |-> w, rc |-> MP4TAG_ERR_NOT_OPEN]
    ELSE IF ~w.writable THEN [w |-> w, rc |-> MP4TAG_ERR_READ_ONLY]
    ELSE write_tags_checked(invalidate_cache(w), tags)

\* clone_simple_tag: name, value, language, is_default and binary copied.
clone_simple_tag(src) ==
    [name |-> src.name, value |-> src.value, binary |-> src.binary,
     language |-> src.language, is_default |-> src.is_default]

\* The clones of the simple tags whose name differs from `name`.
RECURSIVE clone_others(_, _)
clone_others(sts, name) ==
    IF sts = <<>> THEN <<>>
    ELSE (IF sts[1].name # Null /\ str_casecmp(sts[1].name, name) = 0
          THEN <<>> ELSE <<clone_simple_tag(sts[1])>>)
         \o clone_others(Tail(sts), name)

\* The working collection: one ALBUM tag with the given simple tags.
WorkColl(sts) ==
    [isnull |-> FALSE, id |-> 0,
     tags |-> << [target_type |-> MP4TAG_TARGET_ALBUM, simple_tags |-> sts] >>]

\* ex is what mp4tag_read_tags returned (its result code is ignored).
set_tag_existing(ex, name, value) ==
    mp4tag_write_tags(
        ex.w,
        WorkColl((IF ex.tags.isnull THEN <<>>
                  ELSE clone_others(AllSimpleTags(ex.tags.tags), name))
                 \o (IF value # Null THEN <<SimpleTag(name, value)>>
                     ELSE <<>>)))

\* A mp4tag_set_tag_string that does not look at the context's mode.
set_tag_string_any_mode(w, name, value) ==
    IF name = Null THEN [w |-> w, rc |-> MP4TAG_ERR_INVALID_ARG]
    ELSE IF w.fh.isnull THEN [w |-> w, rc |-> MP4TAG_ERR_NOT_OPEN]
    ELSE set_tag_existing(mp4tag_read_tags(w), name, value)

\* mp4tag_set_tag_string: the existing tags but the named one, then the
\* new one when value is not NULL, written with mp4tag_write_tags.
mp4tag_set_tag_string(w, name, value) ==
    IF name = Null THEN [w |-> w, rc |-> MP4TAG_ERR_INVALID_ARG]
    ELSE IF w.fh.isnull THEN [w |-> w, rc |-> MP4TAG_ERR_NOT_OPEN]
    ELSE IF ~w.writable THEN [w |-> w, rc |-> MP4TAG_ERR_READ_ONLY]
    ELSE set_tag_existing(mp4tag_read_tags(w), name, value)

\* mp4tag_remove_tag
mp4tag_remove_tag(w, name) == mp4tag_set_tag_string(w, name, Null)

(***************************************************************************)
(* Files the library is run on                                             *)
(***************************************************************************)
\* A box with an 8-byte header.
Box(type, payload) == mp4_write_box_header(type, 8 + Len(payload)) \o payload

\* An ilst item with one data box.
Item(fourcc, data_type, content) ==
    Box(fourcc, Box(MP4_BOX_DATA, buffer_append_be32(data_type)
                                  \o buffer_append_be32(0) \o content))

S_TITLE == <<84, 73, 84, 76, 69>>
S_title == <<116, 105, 116, 108, 101>>
S_ARTIST == <<65, 82, 84, 73, 83, 84>>
S_ALBUM == <<65, 76, 66, 85, 77>>
S_FOO == <<70, 79, 79>>

Ftyp == Box(MP4_BOX_FTYP, <<77, 52, 65, 32>> \o <<0, 0, 0, 0>>)
Mvhd == Box(<<109, 118, 104, 100>>, <<1, 2, 3, 4>>)
Trak == Box(<<116, 114, 97, 107>>, <<5, 6, 7, 8>>)
Mdat == Box(MP4_BOX_MDAT, <<9, 10, 11, 12, 13>>)
Hdlr == Box(MP4_BOX_HDLR, hdlr_data)

Meta(children) == Box(MP4_BOX_META, <<0, 0, 0, 0>> \o children)

\* ftyp, moov { mvhd, udta { meta { hdlr, ilst, free } } }, mdat: the ilst is
\* followed by a free box inside meta.
FileWithFree ==
    Ftyp
    \o Box(MP4_BOX_MOOV,
           Mvhd
           \o Box(MP4_BOX_UDTA,
                  Meta(Hdlr
                       \o Box(MP4_BOX_ILST,
                              Item(MP4_TAG_NAM, MP4_DATA_UTF8, <<97, 98, 99>>)
                              \o Item(MP4_TAG_ART, MP4_DATA_UTF8, <<120, 121>>))
                       \o Box(MP4_BOX_FREE, Zeros(PadLen)))))
    \o Mdat

\* ftyp, mdat, moov { mvhd, udta { meta { hdlr, ilst } }, trak }: mdat comes
\* first, udta is not the last child, no free box; the ilst holds a title
\* and a genre number.
FileNoFree ==
    Ftyp
    \o Mdat
    \o Box(MP4_BOX_MOOV,
           Mvhd
           \o Box(MP4_BOX_UDTA,
                  Meta(Hdlr
                       \o Box(MP4_BOX_ILST,
                              Item(MP4_TAG_NAM, MP4_DATA_UTF8, <<97, 98, 99>>)
                              \o Item(MP4_TAG_GNRE, MP4_DATA_IMPLICIT,
                                      <<0, 17>>))))
           \o Trak)

\* ftyp, moov { mvhd, trak }, mdat: no udta at all.
FileNoUdta == Ftyp \o Box(MP4_BOX_MOOV, Mvhd \o Trak) \o Mdat

Files == {FileWithFree, FileNoFree, FileNoUdta}

(***************************************************************************)
(* Inputs of the calls                                                     *)
(***************************************************************************)
Names == {S_TITLE, S_title, S_ALBUM, S_FOO}

Values == {<<>>, <<97>>} \cup {[i \in 1..MaxValueLen |-> 96 + i]}

BufSizes == {SmallBuf, BigBuf}

\* The collections a caller hands to mp4tag_write_tags.
CallerColl(sts) ==
    [isnull |-> FALSE, id |-> 0,
     tags |-> << [target_type |-> MP4TAG_TARGET_ALBUM, simple_tags |-> sts] >>]

Colls ==
    { NullColl, CallerColl(<<>>),
      CallerColl(<< SimpleTag(S_TITLE, <<90, 122>>),
                    SimpleTag(S_ARTIST, <<98>>) >>),
      CallerColl(<< SimpleTag(S_FOO, <<97>>), SimpleTag(S_ALBUM, <<>>) >>) }

ReadFaults == { [NoFaults EXCEPT !.rd = i] : i \in 1..MaxRd }

WriteFaults ==
    { [NoFaults EXCEPT !.wr = i, !.wp = TornLen] : i \in 1..MaxWr }

SysFaults ==
    { [NoFaults EXCEPT !.sys = {c}] :
        c \in {"create", "open", "sync", "rename", "reopen"} }

\* A write that fails in place, then a system call of the rewrite that fails.
DoubleFaults ==
    { [NoFaults EXCEPT !.wr = i, !.wp = TornLen, !.sys = {c}] :
        i \in 1..3, c \in {"create", "rename"} }
    \cup { [NoFaults EXCEPT !.sys = {"rename", "reopen"}] }

Plans == {NoFaults} \cup ReadFaults \cup WriteFaults \cup SysFaults
         \cup DoubleFaults

OpenPlans ==
    { NoFaults, [NoFaults EXCEPT !.sys = {"open"}], [NoFaults EXCEPT !.rd = 1] }

(***************************************************************************)
(* The state machine: one context, created closed, on one file.            *)
(***************************************************************************)
VARIABLES
    disk,       \* the bytes of the file at the path
    tmp,        \* the bytes of "<path>.tmp"
    tmpx,       \* whether "<path>.tmp" exists
    ctx,        \* the context
    held,       \* id of the collection mp4tag_read_tags last gave the caller
    last,       \* the last call: arguments, result, the state it started in
    nops,       \* calls made so far
    nfaults,    \* calls that met a fault so far
    walk        \* the box-walking loop being followed step by step, if any

vars == <<disk, tmp, tmpx, ctx, held, last, nops, nfaults, walk>>

\* No loop is being followed.
NoWalk ==
    [loop |-> "none", pos |-> 0, end |-> 0, room |-> 0, at |-> "none",
     rc |-> 0, n |-> 0, target |-> <<0, 0, 0, 0>>, box |-> NoBox]

\* The context after mp4tag_create (calloc).
NewContext ==
    [fh |-> NullHandle, path |-> "none", writable |-> FALSE, info |-> ZeroInfo,
     cached_tags |-> NullColl, nalloc |-> 0, freed |-> {}]

\* The caller's buffer of a call that takes none.
NoBuf == [size |-> 0, value |-> Null]

NoCall ==
    [op |-> "create", name |-> Null, value |-> Null, rc |-> MP4TAG_OK,
     out |-> NoBuf, tags |-> NullColl, disk |-> <<>>, ctx |-> NewContext,
     plan |-> NoFaults, inplace |-> "none", renamed |-> FALSE, cut |-> FALSE,
     box |-> NoBox]

Init ==
    /\ disk \in Files
    /\ tmp = <<>>
    /\ tmpx = FALSE
    /\ ctx = NewContext
    /\ held = 0
    /\ last = NoCall
    /\ nops = 0
    /\ nfaults = 0
    /\ walk = NoWalk

\* The world a call starts in.
World(plan) ==
    [disk |-> disk, tmp |-> tmp, tmpx |-> tmpx, fh |-> ctx.fh,
     tmph |-> NullHandle, nr |-> 0, nw |-> 0, plan |-> plan,
     path |-> ctx.path, writable |-> ctx.writable, info |-> ctx.info,
     cached_tags |-> ctx.cached_tags, nalloc |-> ctx.nalloc,
     freed |-> ctx.freed, hit |-> {}, inplace |-> "none", renamed |-> FALSE,
     cut |-> FALSE]

\* A call can be made while fewer than MaxOps were; it can meet faults (a
\* plan other than NoFaults) when fewer than MaxFaultyCalls calls did and it
\* is at most the LastFaultyOp-th call.
CanCall(plan) ==
    /\ nops < MaxOps
    /\ plan # NoFaults => nfaults < MaxFaultyCalls /\ nops < LastFaultyOp

\* A call meets the faults of `plan`: it got as far as the read, the write
\* and the system calls the plan makes fail.
Met(plan, w) ==
    /\ plan.rd = 0 \/ w.nr >= plan.rd
    /\ plan.wr = 0 \/ w.nw >= plan.wr
    /\ plan.sys \subseteq w.hit

\* The state a call leaves: r holds the world it ended in and its result.
Done(op, name, value, plan, r, out, tags) ==
    /\ Met(plan, r.w)
    /\ disk' = r.w.disk
    /\ tmp' = r.w.tmp
    /\ tmpx' = r.w.tmpx
    /\ ctx' = [fh |-> r.w.fh, path |-> r.w.path, writable |-> r.w.writable,
               info |-> r.w.info, cached_tags |-> r.w.cached_tags,
               nalloc |-> r.w.nalloc, freed |-> r.w.freed]
    /\ held' = IF op = "read_tags" /\ r.rc = MP4TAG_OK THEN tags.id ELSE held
    /\ last' = [op |-> op, name |-> name, value |-> value, rc |-> r.rc,
                out |-> out, tags |-> tags, disk |-> disk, ctx |-> ctx,
                plan |-> plan, inplace |-> r.w.inplace,
                renamed |-> r.w.renamed, cut |-> r.w.cut, box |-> NoBox]
    /\ nops' = nops + 1
    /\ nfaults' = IF plan # NoFaults THEN nfaults + 1 ELSE nfaults
    /\ walk' = walk

Open ==
    \E plan \in OpenPlans :
        /\ CanCall(plan)
        /\ Done("open", Null, Null, plan, mp4tag_open(World(plan), "orig"),
                NoBuf, NullColl)

OpenRw ==
    \E plan \in OpenPlans :
        /\ CanCall(plan)
        /\ Done("open_rw", Null, Null, plan,
                mp4tag_open_rw(World(plan), "orig"), NoBuf, NullColl)

Close ==
    /\ CanCall(NoFaults)
    /\ Done("close", Null, Null, NoFaults,
            [w |-> mp4tag_close(World(NoFaults)), rc |-> MP4TAG_OK], NoBuf,
            NullColl)

\* r is what mp4tag_read_tags returned: *tags is set when it returned OK.
ReadTagsDone(plan, r) ==
    Done("read_tags", Null, Null, plan, r, NoBuf, r.tags)

ReadTags ==
    \E plan \in {NoFaults} \cup ReadFaults :
        /\ CanCall(plan)
        /\ ReadTagsDone(plan, mp4tag_read_tags(World(plan)))

\* r is what mp4tag_read_tag_string returned; out is the caller's buffer of
\* `size` bytes and the string left in it.
ReadTagStringDone(name, size, r) ==
    Done("read_tag_string", name, Null, NoFaults, r,
         [size |-> size, value |-> r.value], NullColl)

ReadTagString ==
    \E name \in Names, size \in BufSizes :
        /\ CanCall(NoFaults)
        /\ ReadTagStringDone(name, size,
               mp4tag_read_tag_string(World(NoFaults), name, size))

\* The caller makes no further mutating call once a call has met a fault.
WriteTags ==
    \E tags \in Colls, plan \in Plans :
        /\ CanCall(plan)
        /\ nfaults = 0
        /\ Done("write_tags", Null, Null, plan,
                mp4tag_write_tags(World(plan), tags), NoBuf, tags)

SetTagString ==
    \E name \in Names, value \in Values, plan \in Plans :
        /\ CanCall(plan)
        /\ nfaults = 0
        /\ Done("set_tag_string", name, value, plan,
                mp4tag_set_tag_string(World(plan), name, value), NoBuf,
                NullColl)

RemoveTag ==
    \E name \in Names, plan \in Plans :
        /\ CanCall(plan)
        /\ nfaults = 0
        /\ Done("remove_tag", name, Null, plan,
                mp4tag_remove_tag(World(plan), name), NoBuf, NullColl)

Next ==
    \/ Open
    \/ OpenRw
    \/ Close
    \/ ReadTags
    \/ ReadTagString
    \/ WriteTags
    \/ SetTagString
    \/ RemoveTag

Spec == Init /\ [][Next]_vars

(***************************************************************************)
(* The item codec on its own: a collection is serialized into an ilst, or  *)
(* an ilst is laid out by hand, and mp4_tags_parse_ilst decodes it.  disk  *)
(* holds the ilst box, last.tags the collection serialized (last.name and  *)
(* last.value the FourCC and the payload of an item laid out by hand), and *)
(* ctx.cached_tags the collection decoded.                                 *)
(***************************************************************************)
S_BPM == <<66, 80, 77>>
S_COMPILATION == <<67, 79, 77, 80, 73, 76, 65, 84, 73, 79, 78>>
S_TRACK_NUMBER == <<84, 82, 65, 67, 75, 95, 78, 85, 77, 66, 69, 82>>
S_DISC_NUMBER == <<68, 73, 83, 67, 95, 78, 85, 77, 66, 69, 82>>

\* The text "N/T".
PairText(n, t) == Dec(n) \o <<47>> \o Dec(t)

\* Track and disc numbers and totals: around the 8-bit and 16-bit edges.
PairNums == {0, 1, 12, 255, 256, 65535, 65536}

\* Values of the tags serialized: a letter, the empty string, a number, a
\* number with a total.
CodecValues == { <<97>>, <<>>, <<55>>, PairText(3, 12) }

CodecNames == {S_TITLE, S_FOO, S_BPM, S_COMPILATION, S_TRACK_NUMBER}

CodecTags == { SimpleTag(n, v) : n \in CodecNames, v \in CodecValues }

\* The collections serialized: one or two simple tags, and every track and
\* disc number "N/T".
CodecColls ==
    { CallerColl(<<a>>) : a \in CodecTags }
    \cup { CallerColl(<<a, b>>) : a \in CodecTags, b \in CodecTags }
    \cup { CallerColl(<<SimpleTag(n, PairText(num, total))>>) :
             n \in {S_TRACK_NUMBER, S_DISC_NUMBER},
             num \in PairNums, total \in PairNums }

\* The atoms parse_ilst_item decodes as integers whatever the type indicator.
IntAtoms ==
    {MP4_TAG_TRKN, MP4_TAG_DISK, MP4_TAG_TMPO, MP4_TAG_CPIL, MP4_TAG_PGAP}

CodecInit ==
    /\ disk = <<>>
    /\ tmp = <<>>
    /\ tmpx = FALSE
    /\ ctx = NewContext
    /\ held = 0
    /\ last = NoCall
    /\ nops = 0
    /\ nfaults = 0
    /\ walk = NoWalk

\* mp4_tags_serialize_ilst of a collection, under an ilst header.
SerializeIlst ==
    \E coll \in CodecColls :
        /\ nops = 0
        /\ disk' = Box(MP4_BOX_ILST, mp4_tags_serialize_ilst(coll.tags))
        /\ last' = [NoCall EXCEPT !.op = "serialize_ilst", !.tags = coll]
        /\ nops' = 1
        /\ UNCHANGED <<tmp, tmpx, ctx, held, nfaults, walk>>

\* An ilst with one item of an integer atom whose payload is one byte.
OneByteItem ==
    \E atom \in IntAtoms, byte \in 0..255,
       data_type \in {MP4_DATA_IMPLICIT, MP4_DATA_INTEGER} :
        /\ nops = 0
        /\ disk' = Box(MP4_BOX_ILST, Item(atom, data_type, <<byte>>))
        /\ last' = [NoCall EXCEPT !.op = "one_byte_item", !.name = atom,
                                  !.value = <<byte>>]
        /\ nops' = 1
        /\ UNCHANGED <<tmp, tmpx, ctx, held, nfaults, walk>>

\* The world in which the ilst on disk is decoded: a handle on the file and
\* the FileMap of a file that is one ilst.
IlstWorld == [World(NoFaults) EXCEPT !.fh = file_open_common(disk, "orig", FALSE)]
IlstInfo == [ZeroInfo EXCEPT !.has_ilst = TRUE, !.ilst_size = Len(disk)]

\* p is what mp4_tags_parse_ilst returned.
ParseIlstDone(p) ==
    /\ ctx' = [ctx EXCEPT !.cached_tags = NewColl(1, p.coll), !.nalloc = 1]
    /\ last' = [last EXCEPT !.op = "parse_ilst", !.rc = p.rc]
    /\ nops' = 2
    /\ UNCHANGED <<disk, tmp, tmpx, held, nfaults, walk>>

\* mp4_tags_parse_ilst of the ilst on disk.
ParseIlst ==
    /\ nops = 1
    /\ ParseIlstDone(mp4_tags_parse_ilst(IlstWorld, "fh", IlstInfo))

CodecNext ==
    \/ SerializeIlst
    \/ OneByteItem
    \/ ParseIlst

CodecSpec == CodecInit /\ [][CodecNext]_vars

(***************************************************************************)
(* Opening files that differ in their ftyp box: every major brand of the   *)
(* documented list and two outside it, with no compatible brand, one, or   *)
(* two; a file whose first box is not ftyp; an ftyp with no brand at all.  *)
(***************************************************************************)
B_isom == <<105, 115, 111, 109>>
B_iso2 == <<105, 115, 111, 50>>
B_NDAS == <<78, 68, 65, 83>>
B_abcd == <<97, 98, 99, 100>>
B_mp4x == <<109, 112, 52, 120>>

\* An ftyp box: major brand, minor version 0, compatible brands.
FtypOf(major, compat) == Box(MP4_BOX_FTYP, major \o <<0, 0, 0, 0>> \o compat)

\* The rest of a file that opens: moov { mvhd, trak }, mdat.
AfterFtyp == Box(MP4_BOX_MOOV, Mvhd \o Trak) \o Mdat

BrandMajors == MajorBrands \cup {B_NDAS, B_abcd, B_mp4x}

BrandCompatLists ==
    {<<>>}
    \cup { c : c \in CompatBrands \cup {B_iso2, B_abcd} }
    \cup { B_abcd \o c : c \in {B_isom, B_mp4x} }

BrandFiles ==
    { FtypOf(major, compat) \o AfterFtyp :
        major \in BrandMajors, compat \in BrandCompatLists }
    \cup { Mdat \o Ftyp \o AfterFtyp,
           Box(MP4_BOX_FTYP, <<>>) \o AfterFtyp,
           Box(MP4_BOX_FTYP, B_isom) \o AfterFtyp,
           Box(MP4_BOX_FTYP, B_abcd \o <<0, 0>>) \o AfterFtyp }

BrandInit ==
    /\ disk \in BrandFiles
    /\ tmp = <<>>
    /\ tmpx = FALSE
    /\ ctx = NewContext
    /\ held = 0
    /\ last = NoCall
    /\ nops = 0
    /\ nfaults = 0
    /\ walk = NoWalk

BrandNext ==
    \/ Open
    \/ OpenRw
    \/ Close

BrandSpec == BrandInit /\ [][BrandNext]_vars

(***************************************************************************)
(* Opening files in which one box carries a size field that does not fit:  *)
(* 0 (to the end of the file), 1 (a 64-bit size follows), a size below 8,  *)
(* a size past the end of its parent or of the file.  The box stands at    *)
(* the top level, among the children of moov, among those of meta, as the  *)
(* first item of the ilst, or right after the ilst.                        *)
(***************************************************************************)
\* The size fields of the box.
OddSizes == {0, 1, 4, 7, 8, 16, 24, 200, 2147483647}

\* The 8 bytes that follow its header: read as a 64-bit size when the size
\* field is 1.
OddPads ==
    { Zeros(8), <<0, 0, 0, 0, 0, 0, 0, 16>>, <<0, 0, 0, 0, 0, 0, 1, 0>>,
      <<0, 0, 0, 1, 0, 0, 0, 0>>,
      <<255, 255, 255, 255, 255, 255, 255, 240>> }

OddTypes == {MP4_BOX_FREE, MP4_BOX_SKIP, B_abcd}

OddLevels == {"top", "moov", "meta", "item", "free"}

\* The 16 bytes of the box: size field, type, 8 more bytes.
OddBox(size, type, pad) == buffer_append_be32(size) \o type \o pad

\* ftyp, [box], moov { mvhd, [box], udta { meta { hdlr, [box],
\* ilst { [box], title }, [box] } }, trak }, mdat with the box at one place.
OddFile(level, ob) ==
    LET At(l) == IF level = l THEN ob ELSE <<>> IN
    Ftyp
    \o At("top")
    \o Box(MP4_BOX_MOOV,
           Mvhd
           \o At("moov")
           \o Box(MP4_BOX_UDTA,
                  Meta(Hdlr
                       \o At("meta")
                       \o Box(MP4_BOX_ILST,
                              At("item")
                              \o Item(MP4_TAG_NAM, MP4_DATA_UTF8,
                                      <<97, 98, 99>>))
                       \o At("free")))
           \o Trak)
    \o Mdat

OddFiles ==
    { OddFile(level, OddBox(size, type, pad)) :
        level \in OddLevels, size \in OddSizes, type \in OddTypes,
        pad \in OddPads }

OddInit ==
    /\ disk \in OddFiles
    /\ tmp = <<>>
    /\ tmpx = FALSE
    /\ ctx = NewContext
    /\ held = 0
    /\ last = NoCall
    /\ nops = 0
    /\ nfaults = 0
    /\ walk = NoWalk

OddNext ==
    \/ Open
    \/ OpenRw
    \/ Close
    \/ ReadTags

OddSpec == OddInit /\ [][OddNext]_vars

(***************************************************************************)
(* mp4_read_box_header on its own: a handle is opened on a short file and  *)
(* set at an offset, then one header is read there.  last.ctx holds the    *)
(* handle before the read, last.rc and last.box what the read returned.    *)
(***************************************************************************)
\* The size fields of the header read.
HdrSizes == {0, 1, 2, 7, 8, 9, 16, 17, 300, 2147483647}

\* The bytes that follow the 8 header bytes.
HdrTails ==
    { <<>>, <<0, 0, 0>>, Zeros(8), <<0, 0, 0, 0, 0, 0, 0, 15>>,
      <<0, 0, 0, 0, 0, 0, 0, 16>>, <<0, 0, 0, 1, 0, 0, 0, 0>>,
      <<128, 0, 0, 0, 0, 0, 0, 0>>, <<0, 0, 0, 0, 0, 0, 0, 24, 1, 2, 3>> }

HdrFiles ==
    { buffer_append_be32(size) \o B_abcd \o tail :
        size \in HdrSizes, tail \in HdrTails }
    \cup { <<>>, <<0, 0, 0>>, <<0, 0, 0, 8, 97, 98, 99>> }

\* The offsets the handle is set at.
HdrOffsets == {0, 3, 8}

HdrInit ==
    /\ disk \in HdrFiles
    /\ tmp = <<>>
    /\ tmpx = FALSE
    /\ ctx = NewContext
    /\ held = 0
    /\ last = NoCall
    /\ nops = 0
    /\ nfaults = 0
    /\ walk = NoWalk

\* file_open_read and file_seek: a handle on the file at an offset.
SeekHeader ==
    \E pos \in HdrOffsets :
        /\ nops = 0
        /\ ctx' = [ctx EXCEPT !.fh = [file_open_common(disk, "orig", FALSE)
                                         EXCEPT !.pos = pos]]
        /\ last' = [NoCall EXCEPT !.op = "seek"]
        /\ nops' = 1
        /\ UNCHANGED <<disk, tmp, tmpx, held, nfaults, walk>>

\* h is what mp4_read_box_header returned.
ReadBoxHeaderDone(h) ==
    /\ ctx' = [ctx EXCEPT !.fh = h.w.fh]
    /\ last' = [NoCall EXCEPT !.op = "read_box_header", !.rc = h.rc,
                              !.box = h.box, !.ctx = ctx]
    /\ nops' = 2
    /\ UNCHANGED <<disk, tmp, tmpx, held, nfaults, walk>>

\* mp4_read_box_header at the handle's position.
ReadBoxHeader ==
    /\ nops = 1
    /\ ReadBoxHeaderDone(mp4_read_box_header(World(NoFaults), "fh"))

HdrNext ==
    \/ SeekHeader
    \/ ReadBoxHeader

HdrSpec == HdrInit /\ [][HdrNext]_vars

(***************************************************************************)
(* The caller hands mp4tag_write_tags the collection mp4tag_read_tags gave *)
(* it: the context's cached collection.  invalidate_cache frees it before  *)
(* it is serialized, so what the serializer reads is what the allocator    *)
(* left in the freed blocks: the tags as they were, none, or other bytes   *)
(* (a tag that was never in the file stands for these).                    *)
(***************************************************************************)
ReleasedReads(coll) ==
    { coll.tags, <<>>, CallerColl(<<SimpleTag(S_FOO, <<97>>)>>).tags }

WriteTagsHeld ==
    \E plan \in Plans, seen \in ReleasedReads(ctx.cached_tags) :
        /\ CanCall(plan)
        /\ nfaults = 0
        /\ ~ctx.cached_tags.isnull
        /\ held = ctx.cached_tags.id
        /\ Done("write_tags", Null, Null, plan,
                mp4tag_write_tags(World(plan),
                                  [ctx.cached_tags EXCEPT !.tags = seen]),
                NoBuf, [ctx.cached_tags EXCEPT !.tags = seen])

HeldNext ==
    \/ Open
    \/ OpenRw
    \/ Close
    \/ ReadTags
    \/ ReadTagString
    \/ WriteTagsHeld

HeldSpec == Init /\ [][HeldNext]_vars

(***************************************************************************)
(* mp4tag_set_tag_string with the spellings of a name the encoder accepts: *)
(* the canonical name in upper or lower case, and the four characters of   *)
(* the atom itself.                                                        *)
(***************************************************************************)
S_track_number ==
    <<116, 114, 97, 99, 107, 95, 110, 117, 109, 98, 101, 114>>

Spellings ==
    { S_TITLE, S_title, mp4_fourcc_to_str(MP4_TAG_NAM),
      S_TRACK_NUMBER, S_track_number, mp4_fourcc_to_str(MP4_TAG_TRKN),
      mp4_fourcc_to_str(MP4_TAG_GNRE) }

SpelledValues == { <<55>>, <<97>> }

SetTagSpelled ==
    \E name \in Spellings, value \in SpelledValues :
        /\ CanCall(NoFaults)
        /\ Done("set_tag_string", name, value, NoFaults,
                mp4tag_set_tag_string(World(NoFaults), name, value), NoBuf,
                NullColl)

SpellNext ==
    \/ OpenRw
    \/ Close
    \/ SetTagSpelled

SpellSpec == Init /\ [][SpellNext]_vars

(***************************************************************************)
(* The box-walking loops, one iteration at a time.  A handle is open on a  *)
(* file in which one box carries an odd size field, among them 64-bit      *)
(* sizes close to INT64_MAX.  A loop is entered where the code enters it:  *)
(* the top-level scan and the top-level loop of rewrite_file at offset 0,  *)
(* the others over the boxes mp4_parse_structure finds in the file; one    *)
(* loop is followed from its entry to its end.  The sums `offset + size`   *)
(* and `pos + 8` are int64_t sums: one that leaves the range is undefined, *)
(* and either wraps around (the result is negative) or traps.              *)
(***************************************************************************)
\* The size fields of the odd box.
WalkSizes == {0, 1, 4, 8, 16, 24, 200}

\* The 8 bytes that follow its header: the 64-bit size when the field is 1.
WalkPads ==
    { Zeros(8), <<0, 0, 0, 0, 0, 0, 0, 16>>, <<0, 0, 0, 1, 0, 0, 0, 0>>,
      <<127, 255, 255, 255, 255, 255, 255, 255>>,
      <<127, 255, 255, 255, 255, 255, 255, 235>>,
      <<127, 255, 255, 255, 255, 255, 255, 215>>,
      <<127, 255, 255, 255, 255, 255, 255, 0>>,
      <<255, 255, 255, 255, 255, 255, 255, 240>> }

WalkLevels == {"top", "moov", "meta", "item", "data"}

\* ftyp, [box], moov { mvhd, [box], udta { meta { hdlr, [box],
\* ilst { [box], title { [box], data } } } }, trak }, mdat with the box at
\* one place.
WalkFile(level, ob) ==
    LET At(l) == IF level = l THEN ob ELSE <<>> IN
    Ftyp
    \o At("top")
    \o Box(MP4_BOX_MOOV,
           Mvhd
           \o At("moov")
           \o Box(MP4_BOX_UDTA,
                  Meta(Hdlr
                       \o At("meta")
                       \o Box(MP4_BOX_ILST,
                              At("item")
                              \o Box(MP4_TAG_NAM,
                                     At("data")
                                     \o Box(MP4_BOX_DATA,
                                            <<0, 0, 0, 1, 0, 0, 0, 0, 97>>)))))
           \o Trak)
    \o Mdat

\* The odd boxes: every size field, and with the size field 1 every 64-bit
\* size.
WalkBoxes ==
    { OddBox(size, B_abcd, Zeros(8)) : size \in WalkSizes }
    \cup { OddBox(1, B_abcd, pad) : pad \in WalkPads }

WalkFiles == { WalkFile(level, ob) : level \in WalkLevels, ob \in WalkBoxes }

\* What an int64_t sum that leaves the range does.
Overflows == {"wrap", "trap"}

\* INT64_MAX minus the 64-bit integer in the 8 bytes b where that is below
\* 2^24, Huge where it is more.
Room64(b) ==
    IF b[1] = 127 /\ b[2] = 255 /\ b[3] = 255 /\ b[4] = 255 /\ b[5] = 255
    THEN (255 - b[6]) * 65536 + (255 - b[7]) * 256 + (255 - b[8])
    ELSE Huge

\* INT64_MAX - box.size likewise: only a 64-bit size comes that close.
BoxRoom(f, box) ==
    IF box.header_size = 16
    THEN Room64(SubSeq(f, box.offset + 9, box.offset + 16))
    ELSE Huge

\* box.offset + box.size: `over` when the sum leaves the range, else its
\* value and what is left from it to INT64_MAX.
BoxEnd(f, box) ==
    [over |-> box.offset > BoxRoom(f, box),
     val |-> Min(Huge, box.offset + box.size),
     room |-> IF BoxRoom(f, box) = Huge THEN Huge
              ELSE BoxRoom(f, box) - box.offset]

\* The world of a walk: the context's handle is the one read from, the
\* scratch handle stands at the end of the scratch file.
WalkWorld ==
    [World(NoFaults) EXCEPT
        !.tmph = [file_open_common(tmp, "tmp", TRUE) EXCEPT !.pos = Len(tmp)]]

\* The header at offset o.
HeaderAt(o) == mp4_read_box_header(file_seek(WalkWorld, "fh", o), "fh")

\* The FileMap mp4_parse_structure builds of the file.
WalkInfo == mp4_parse_structure(WalkWorld, "fh")

\* The udta rewrite_file writes: that of an empty collection.
WalkUdta == Box(MP4_BOX_UDTA, <<>>)

WalkInit ==
    /\ disk \in WalkFiles
    /\ tmp = <<>>
    /\ tmpx = FALSE
    /\ ctx = [NewContext EXCEPT !.fh = file_open_common(disk, "orig", FALSE)]
    /\ held = 0
    /\ last = NoCall
    /\ nops = 0
    /\ nfaults = 0
    /\ walk = NoWalk

\* A loop is entered at pos; e is the sum that gives its end, box the box
\* whose children it walks.
EnterLoop(loop, pos, e, target, box, ub) ==
    /\ walk = NoWalk
    /\ walk' = IF e.over /\ ub = "trap"
               THEN [NoWalk EXCEPT !.loop = loop, !.pos = pos, !.at = "trap"]
               ELSE [loop |-> loop, pos |-> pos,
                     end |-> IF e.over THEN -Huge ELSE e.val,
                     room |-> Huge, at |-> "test", rc |-> 0, n |-> 0,
                     target |-> target, box |-> box]
    /\ UNCHANGED <<disk, ctx, held, last, nops, nfaults>>

\* A sum that is no sum of the code: the end is given.
Given(end) == [over |-> FALSE, val |-> end, room |-> Huge]

\* mp4_parse_structure enters its top-level scan.
EnterScan ==
    /\ file_size(ctx.fh) >= 8
    /\ EnterLoop("mp4_parse_structure", 0, Given(file_size(ctx.fh)),
                 MP4_BOX_MOOV, NoBox, "wrap")
    /\ UNCHANGED <<tmp, tmpx>>

\* find_child_box is entered over the children of the box p, from `skip`
\* bytes into its payload.
EnterChildren(p, skip, target, ub) ==
    /\ p.rc = MP4TAG_OK
    /\ EnterLoop("find_child_box", p.box.data_offset + skip,
                 BoxEnd(disk, p.box), target, p.box, ub)
    /\ UNCHANGED <<tmp, tmpx>>

\* The searches of mp4_parse_structure: udta in moov, meta in udta, hdlr and
\* ilst in meta.
EnterFind ==
    /\ WalkInfo.rc = MP4TAG_OK
    /\ \E ub \in Overflows :
        \/ EnterChildren(HeaderAt(WalkInfo.info.moov_offset), 0, MP4_BOX_UDTA,
                         ub)
        \/ /\ WalkInfo.info.has_udta
           /\ EnterChildren(HeaderAt(WalkInfo.info.udta_offset), 0,
                            MP4_BOX_META, ub)
        \/ /\ WalkInfo.info.has_meta
           /\ \E target \in {MP4_BOX_HDLR, MP4_BOX_ILST} :
                EnterChildren(HeaderAt(WalkInfo.info.meta_offset), 4, target,
                              ub)

\* mp4_tags_parse_ilst enters its item walk.
EnterIlst ==
    /\ WalkInfo.rc = MP4TAG_OK
    /\ WalkInfo.info.has_ilst
    /\ EnterLoop("mp4_tags_parse_ilst", WalkInfo.info.ilst_offset + 8,
                 Given(Min(Huge, WalkInfo.info.ilst_offset
                                   + WalkInfo.info.ilst_size)),
                 MP4_BOX_DATA, NoBox, "wrap")
    /\ UNCHANGED <<tmp, tmpx>>

\* parse_ilst_item is entered on the first item of the ilst.
EnterItem ==
    /\ WalkInfo.rc = MP4TAG_OK
    /\ WalkInfo.info.has_ilst
    /\ WalkInfo.info.ilst_offset + 16 <= WalkInfo.info.ilst_offset
                                            + WalkInfo.info.ilst_size
    /\ LET item == HeaderAt(WalkInfo.info.ilst_offset + 8) IN
         /\ item.rc = MP4TAG_OK
         /\ item.box.size >= 8
         /\ \E ub \in Overflows :
              EnterLoop("parse_ilst_item", item.box.data_offset,
                        BoxEnd(disk, item.box), MP4_BOX_DATA, item.box, ub)
    /\ UNCHANGED <<tmp, tmpx>>

\* rewrite_file enters its top-level loop with the scratch file created.
EnterRewrite ==
    /\ EnterLoop("rewrite_file", 0, Given(file_size(ctx.fh)), MP4_BOX_MOOV,
                 NoBox, "wrap")
    /\ tmp' = <<>>
    /\ tmpx' = TRUE

\* rewrite_file enters its second pass over the children of moov.
EnterMoov ==
    /\ WalkInfo.rc = MP4TAG_OK
    /\ LET moov == HeaderAt(WalkInfo.info.moov_offset) IN
         /\ moov.rc = MP4TAG_OK
         /\ \E ub \in Overflows :
              EnterLoop("rewrite_file moov", moov.box.data_offset,
                        BoxEnd(disk, moov.box), MP4_BOX_UDTA, moov.box, ub)
    /\ tmp' = <<>>
    /\ tmpx' = TRUE

\* The test `pos + 8 <= end` of a loop: the sum wraps to a negative number
\* or traps when fewer than 8 are left from pos to INT64_MAX.
Test8(wk, ub) ==
    IF wk.room < 8 THEN (IF ub = "trap" THEN "trap" ELSE "in")
    ELSE IF wk.pos + 8 <= wk.end THEN "in" ELSE "out"

\* The loop is left with rc.
Leave(wk, rc) == [wk EXCEPT !.at = "out", !.rc = rc, !.n = @ + 1]

\* pos = box.offset + box.size.
Advance(wk, f, box, ub) ==
    IF BoxEnd(f, box).over /\ ub = "trap"
    THEN [wk EXCEPT !.at = "trap", !.n = @ + 1]
    ELSE IF BoxEnd(f, box).over
    THEN [wk EXCEPT !.pos = -Huge, !.room = Huge, !.n = @ + 1]
    ELSE [wk EXCEPT !.pos = BoxEnd(f, box).val, !.room = BoxEnd(f, box).room,
                    !.n = @ + 1]

\* An iteration ends: the walk is wk, the handle that of the world w.
Iterated(loop, wk, w) ==
    /\ walk.loop = loop
    /\ walk.at = "test"
    /\ walk' = wk
    /\ ctx' = [ctx EXCEPT !.fh = w.fh]
    /\ tmp' = w.tmp
    /\ UNCHANGED <<disk, tmpx, held, last, nops, nfaults>>

\* One iteration of the top-level scan of mp4_parse_structure.
ScanIter ==
    \E ub \in Overflows :
        LET h == HeaderAt(walk.pos) IN
        IF Test8(walk, ub) = "trap"
        THEN Iterated("mp4_parse_structure", [walk EXCEPT !.at = "trap"],
                      WalkWorld)
        ELSE IF Test8(walk, ub) = "out"
        THEN Iterated("mp4_parse_structure", Leave(walk, 0), WalkWorld)
        ELSE IF h.rc # 0 \/ h.box.size < 8
        THEN Iterated("mp4_parse_structure", Leave(walk, 0), h.w)
        ELSE Iterated("mp4_parse_structure", Advance(walk, disk, h.box, ub),
                      h.w)

\* One iteration of find_child_box.
FindIter ==
    \E ub \in Overflows :
        LET h == HeaderAt(walk.pos) IN
        IF Test8(walk, ub) = "trap"
        THEN Iterated("find_child_box", [walk EXCEPT !.at = "trap"], WalkWorld)
        ELSE IF Test8(walk, ub) = "out"
        THEN Iterated("find_child_box", Leave(walk, MP4TAG_ERR_TAG_NOT_FOUND),
                      WalkWorld)
        ELSE IF h.rc # 0 THEN Iterated("find_child_box", Leave(walk, h.rc), h.w)
        ELSE IF h.box.size < 8
        THEN Iterated("find_child_box", Leave(walk, MP4TAG_ERR_CORRUPT), h.w)
        ELSE IF h.box.type = walk.target
        THEN Iterated("find_child_box", Leave(walk, MP4TAG_OK), h.w)
        ELSE Iterated("find_child_box", Advance(walk, disk, h.box, ub), h.w)

\* One iteration of the data-box search of parse_ilst_item: a data box with
\* at least 8 payload bytes has its value read and ends the search.
ItemIter ==
    \E ub \in Overflows :
        LET h == HeaderAt(walk.pos) IN
        IF Test8(walk, ub) = "trap"
        THEN Iterated("parse_ilst_item", [walk EXCEPT !.at = "trap"], WalkWorld)
        ELSE IF Test8(walk, ub) = "out"
        THEN Iterated("parse_ilst_item", Leave(walk, MP4TAG_ERR_TAG_NOT_FOUND),
                      WalkWorld)
        ELSE IF h.rc # 0 THEN Iterated("parse_ilst_item", Leave(walk, h.rc), h.w)
        ELSE IF h.box.size < 8
        THEN Iterated("parse_ilst_item", Leave(walk, MP4TAG_ERR_TAG_NOT_FOUND),
                      h.w)
        ELSE IF h.box.type = MP4_BOX_DATA /\ h.box.data_size >= 8
        THEN Iterated("parse_ilst_item",
                      Leave(walk, item_child(h, "fh", walk.box, walk.end).rc),
                      item_child(h, "fh", walk.box, walk.end).w)
        ELSE Iterated("parse_ilst_item", Advance(walk, disk, h.box, ub), h.w)

\* One iteration of the item walk of mp4_tags_parse_ilst.  parse_ilst_item
\* adds the item's offset and size before the walk does: where the sum
\* wraps, its end is negative and it reads nothing.
IlstIter ==
    \E ub \in Overflows :
        LET h == HeaderAt(walk.pos) IN
        IF Test8(walk, ub) = "trap"
        THEN Iterated("mp4_tags_parse_ilst", [walk EXCEPT !.at = "trap"],
                      WalkWorld)
        ELSE IF Test8(walk, ub) = "out"
        THEN Iterated("mp4_tags_parse_ilst", Leave(walk, 0), WalkWorld)
        ELSE IF h.rc # 0 \/ h.box.size < 8
        THEN Iterated("mp4_tags_parse_ilst", Leave(walk, 0), h.w)
        ELSE IF BoxEnd(disk, h.box).over
        THEN Iterated("mp4_tags_parse_ilst", Advance(walk, disk, h.box, ub),
                      h.w)
        ELSE Iterated("mp4_tags_parse_ilst", Advance(walk, disk, h.box, ub),
                      parse_ilst_item(h.w, "fh", h.box).w)

\* c is the copy an iteration of rewrite_file made of the box of h.
Copied(loop, c, h, ub) ==
    IF c.rc # 0 THEN Iterated(loop, Leave(walk, c.rc), c.w)
    ELSE Iterated(loop, Advance(walk, disk, h.box, ub), c.w)

\* One iteration of the top-level loop of rewrite_file: moov is rebuilt,
\* any other box copied.
RewriteIter ==
    \E ub \in Overflows :
        LET h == HeaderAt(walk.pos) IN
        IF walk.pos >= walk.end
        THEN Iterated("rewrite_file", Leave(walk, 0), WalkWorld)
        ELSE IF h.rc # 0 \/ h.box.size < 8
        THEN Iterated("rewrite_file", Leave(walk, 0), h.w)
        ELSE IF h.box.type = MP4_BOX_MOOV
        THEN Copied("rewrite_file", rebuild_moov(h.w, h.box, WalkUdta), h, ub)
        ELSE Copied("rewrite_file",
                    copy_bytes(file_seek(h.w, "fh", h.box.offset), h.box.size),
                    h, ub)

\* One iteration of the second pass of rewrite_file over the children of
\* moov: a child that is not udta is copied.
MoovIter ==
    \E ub \in Overflows :
        LET h == HeaderAt(walk.pos) IN
        IF Test8(walk, ub) = "trap"
        THEN Iterated("rewrite_file moov", [walk EXCEPT !.at = "trap"],
                      WalkWorld)
        ELSE IF Test8(walk, ub) = "out"
        THEN Iterated("rewrite_file moov", Leave(walk, 0), WalkWorld)
        ELSE IF h.rc # 0 \/ h.box.size < 8
        THEN Iterated("rewrite_file moov", Leave(walk, 0), h.w)
        ELSE IF h.box.type # MP4_BOX_UDTA
        THEN Copied("rewrite_file moov",
                    copy_bytes(file_seek(h.w, "fh", h.box.offset), h.box.size),
                    h, ub)
        ELSE Iterated("rewrite_file moov", Advance(walk, disk, h.box, ub), h.w)

WalkNext ==
    \/ EnterScan
    \/ EnterFind
    \/ EnterIlst
    \/ EnterItem
    \/ EnterRewrite
    \/ EnterMoov
    \/ ScanIter
    \/ FindIter
    \/ ItemIter
    \/ IlstIter
    \/ RewriteIter
    \/ MoovIter

WalkSpec == WalkInit /\ [][WalkNext]_vars


-----------------------------------------------------------------------------
\* Reading a file's bytes as boxes, for the properties below.  These read the
\* bytes directly and share nothing with the parser above but BE32.

Writers == {"write_tags", "set_tag_string", "remove_tag"}

\* The boxes that tile f from pos on, up to the first that is malformed or
\* runs past end.
RECURSIVE BoxesIn(_, _, _)
BoxesIn(f, pos, end) ==
    IF pos + 8 > end THEN <<>>
    ELSE LET size == BE32(SubSeq(f, pos + 1, pos + 4)) IN
         IF size < 8 \/ pos + size > end THEN <<>>
         ELSE <<[type |-> SubSeq(f, pos + 5, pos + 8), offset |-> pos,
                 size |-> size]>> \o BoxesIn(f, pos + size, end)

TopBoxes(f) == BoxesIn(f, 0, Len(f))

\* The boxes inside b, whose content starts skip bytes after its header.
ChildBoxes(f, b, skip) == BoxesIn(f, b.offset + 8 + skip, b.offset + b.size)

BoxBytes(f, b) == SubSeq(f, b.offset + 1, b.offset + b.size)

Absent == [type |-> <<>>, offset |-> 0, size |-> 0]

\* The first box of the given type in a sequence of boxes.
FirstBox(boxes, type) ==
    IF \E i \in 1..Len(boxes) : boxes[i].type = type
    THEN boxes[CHOOSE i \in 1..Len(boxes) :
                 /\ boxes[i].type = type
                 /\ \A j \in 1..(i - 1) : boxes[j].type # type]
    ELSE Absent

MoovOf(f) == FirstBox(TopBoxes(f), MP4_BOX_MOOV)
UdtaOf(f) == FirstBox(ChildBoxes(f, MoovOf(f), 0), MP4_BOX_UDTA)
MetaOf(f) == FirstBox(ChildBoxes(f, UdtaOf(f), 0), MP4_BOX_META)
IlstOf(f) == FirstBox(ChildBoxes(f, MetaOf(f), 4), MP4_BOX_ILST)

RECURSIVE SumSizes(_)
SumSizes(boxes) ==
    IF boxes = <<>> THEN 0 ELSE Head(boxes).size + SumSizes(Tail(boxes))

\* b's size is its header, skip bytes, and its children, with nothing left.
SizeClosed(f, b, skip) == b.size = 8 + skip + SumSizes(ChildBoxes(f, b, skip))

\* The bytes of the boxes of a sequence that are not of the given type.
RECURSIVE BytesExcept(_, _, _)
BytesExcept(f, boxes, type) ==
    IF boxes = <<>> THEN <<>>
    ELSE (IF Head(boxes).type = type THEN <<>>
          ELSE <<BoxBytes(f, Head(boxes))>>)
         \o BytesExcept(f, Tail(boxes), type)

TypesOf(boxes) == [i \in 1..Len(boxes) |-> boxes[i].type]

\* The items of f's ilst, each as the bytes of its box.
IlstItems(f) ==
    LET items == ChildBoxes(f, IlstOf(f), 0)
    IN  [i \in 1..Len(items) |-> BoxBytes(f, items[i])]

\* What a fresh context that opens the file read-only reads from it.
Reopened(f) ==
    mp4tag_open([World(NoFaults) EXCEPT !.disk = f, !.fh = NullHandle,
                    !.path = "none", !.writable = FALSE, !.info = ZeroInfo,
                    !.cached_tags = NullColl], "orig").w

\* The context as it is, but with nothing of the file held from earlier: the
\* handle's buffer empty, its size the file's, the file info parsed anew.
Parsed(ps) == [ps.w EXCEPT !.info = ps.info]
Refreshed ==
    Parsed(mp4_parse_structure(
               [World(NoFaults) EXCEPT !.fh.buf = <<>>, !.fh.buf_start = 0,
                                       !.fh.buf_len = 0,
                                       !.fh.file_size = Len(disk)],
               "fh"))

-----------------------------------------------------------------------------
\* Properties.  `last` is the call just made: last.disk and last.ctx are the
\* file and the context it started with, disk and ctx what it left.

\* The call ran try_inplace and one of its steps after the space check
\* failed.
InplaceStepFailed == last.inplace \in {"header", "content", "padding"}

\* C1: when a step of the in-place strategy fails during a write to a file
\* that has an ilst, the file's bytes are those it had before the call.  (The
\* statement here is the claim's for the calls that end without a rename: a
\* call whose rewrite replaced the file is left out, so that a violation is a
\* file changed by the failed in-place strategy alone.)
C1_InplaceFailureLeavesFile ==
    (/\ last.op \in Writers
     /\ last.ctx.info.has_ilst
     /\ InplaceStepFailed
     /\ ~last.renamed)
    => disk = last.disk

\* C2: a rewrite replaces the file at the original path only by a scratch
\* into which every top-level box and every kept child of moov was copied in
\* full; a rewrite that ends without a rename has written no byte of the
\* original file.
C2_RenameOnlyCompleteScratch ==
    last.op \in Writers =>
        /\ last.renamed => ~last.cut
        /\ (~last.renamed /\ last.inplace \in {"none", "nospace"})
               => disk = last.disk

\* C3: no call of mp4tag_write_tags, mp4tag_set_tag_string or
\* mp4tag_remove_tag returns MP4TAG_ERR_NO_SPACE.
C3_NoSpaceNeverReturned ==
    last.op \in Writers => last.rc # MP4TAG_ERR_NO_SPACE

\* The in-place strategy found too little room, the call went on to the
\* rewrite and returned what the rewrite did.
C3_Escalated ==
    /\ last.op \in Writers
    /\ last.inplace = "nospace"
    /\ last.renamed
    /\ last.rc = MP4TAG_OK

\* C4: after a write that returns OK, the top-level boxes other than moov
\* (mdat among them) and the children of moov other than udta have the bytes
\* they had before, in the same order.
C4_OtherBoxesKept ==
    (last.op \in Writers /\ last.rc = MP4TAG_OK) =>
        /\ BytesExcept(disk, TopBoxes(disk), MP4_BOX_MOOV)
               = BytesExcept(last.disk, TopBoxes(last.disk), MP4_BOX_MOOV)
        /\ BytesExcept(disk, ChildBoxes(disk, MoovOf(disk), 0), MP4_BOX_UDTA)
               = BytesExcept(last.disk,
                             ChildBoxes(last.disk, MoovOf(last.disk), 0),
                             MP4_BOX_UDTA)

\* The bytes try_inplace may write: from the ilst to the end of the free box
\* that follows it, as the context had them when the call began.
InplaceFirst == last.ctx.info.ilst_offset + 1
InplaceLast ==
    last.ctx.info.ilst_offset + last.ctx.info.ilst_size
    + (IF last.ctx.info.has_free_after_ilst
       THEN last.ctx.info.free_after_ilst_size ELSE 0)

\* C5: a write that the in-place strategy completes changes no byte outside
\* the ilst and its trailing free box, and leaves the file's length and the
\* sizes of moov, udta and meta as they were.
C5_InplaceWritesOnlyIlstRegion ==
    (last.op \in Writers /\ last.inplace = "ok") =>
        /\ Len(disk) = Len(last.disk)
        /\ \A i \in 1..Len(last.disk) :
               (i < InplaceFirst \/ i > InplaceLast) => disk[i] = last.disk[i]
        /\ MoovOf(disk) = MoovOf(last.disk)
        /\ UdtaOf(disk) = UdtaOf(last.disk)
        /\ MetaOf(disk) = MetaOf(last.disk)

\* The in-place strategy completed, shrank the ilst and wrote a free box
\* after it, and the file has bytes after that region.
C5_InplaceCompleted ==
    /\ last.op \in Writers
    /\ last.inplace = "ok"
    /\ disk # last.disk
    /\ IlstOf(disk).size < IlstOf(last.disk).size
    /\ InplaceLast < Len(disk)

\* The sizes of moov, udta, meta and ilst of a file each are the header plus
\* the children (plus 4 bytes of version and flags in meta).
SizesClosed(f) ==
    /\ MoovOf(f) # Absent /\ SizeClosed(f, MoovOf(f), 0)
    /\ UdtaOf(f) # Absent /\ SizeClosed(f, UdtaOf(f), 0)
    /\ MetaOf(f) # Absent /\ SizeClosed(f, MetaOf(f), 4)
    /\ IlstOf(f) # Absent /\ SizeClosed(f, IlstOf(f), 0)

\* C6: after a write that returns OK the sizes of moov, udta, meta and ilst
\* are each 8 plus the sizes of their children (plus 4 for meta), the in-place
\* strategy's fill of 1 to 7 bytes included.  (Stated for the calls that meet
\* no fault.)
C6_SizesClosedAfterWrite ==
    (last.op \in Writers /\ last.rc = MP4TAG_OK /\ last.plan = NoFaults)
        => SizesClosed(disk)

\* The call was a mutating one with the arguments it requires (a collection
\* for mp4tag_write_tags, a name for the other two) on an open context.
MutatorOnOpen ==
    /\ last.op \in Writers
    /\ ~last.ctx.fh.isnull
    /\ last.op = "write_tags" => ~last.tags.isnull
    /\ last.op # "write_tags" => last.name # Null

\* C7: on a context opened read-only, mp4tag_write_tags,
\* mp4tag_set_tag_string and mp4tag_remove_tag (called with the arguments
\* they require) return MP4TAG_ERR_READ_ONLY, and the file's bytes, the
\* context's file info and its cached collection are what they were.
C7_ReadOnlyRejectsMutation ==
    (MutatorOnOpen /\ ~last.ctx.writable) =>
        /\ last.rc = MP4TAG_ERR_READ_ONLY
        /\ disk = last.disk
        /\ ctx = last.ctx

\* A mutating call was made on a read-only context that had no collection
\* cached and whose file has an ilst.
C7_MutatorOnReadOnly ==
    /\ MutatorOnOpen
    /\ ~last.ctx.writable
    /\ last.op = "set_tag_string"
    /\ last.ctx.info.has_ilst
    /\ last.ctx.cached_tags.isnull
    /\ last.rc = MP4TAG_ERR_READ_ONLY

\* The call released the context's collection: mp4tag_close, or a mutating
\* call that got past its checks of the arguments, the handle and the mode.
Releasing ==
    \/ last.op = "close"
    \/ MutatorOnOpen /\ last.ctx.writable

\* What mp4tag_read_tags returns: its result code and the tags it read.
ReadOf(r) == [rc |-> r.rc, tags |-> r.tags.tags]

\* C8: after mp4tag_close or a mutating call that got past its checks, the
\* collection the context had cached is released, and the next
\* mp4tag_read_tags on the context returns what a parse of the file as it
\* then is gives; and mp4tag_read_tags on a context that has a cached
\* collection returns that collection and parses nothing.  (The next read is
\* stated for the calls that returned OK and copied every box in full, so
\* that a violation is none of a torn in-place write or a short copy.)
C8_CacheReleasedAndFresh ==
    /\ Releasing =>
          /\ ctx.cached_tags.isnull
          /\ ~last.ctx.cached_tags.isnull
                 => last.ctx.cached_tags.id \in ctx.freed
          /\ (~ctx.fh.isnull /\ last.rc = MP4TAG_OK /\ ~last.cut) =>
                 ReadOf(mp4tag_read_tags(World(NoFaults)))
                     = ReadOf(mp4tag_read_tags(Refreshed))
    /\ (last.op = "read_tags" /\ ~last.ctx.cached_tags.isnull) =>
          /\ last.rc = MP4TAG_OK
          /\ last.tags = last.ctx.cached_tags
          /\ ctx = last.ctx

\* The result of mp4tag_read_tag_string for the name of the last call, in a
\* buffer that holds any value the calls here set.
ReadBack(w) ==
    LET r == mp4tag_read_tag_string(w, last.name, BigBuf)
    IN  [rc |-> r.rc, value |-> r.value]

\* The encoder writes an item for the name: it is a name of the tag map or
\* has exactly 4 characters.
HasFourCC(name) ==
    item_fourcc(mp4_tag_name_to_fourcc(name), name) # <<0, 0, 0, 0>>

\* C9: when mp4tag_set_tag_string(name, value) with a value that is not NULL
\* returns OK, mp4tag_read_tag_string(name) returns OK and that value, on the
\* same context and on a new context that opens the file.  (Stated for the
\* calls that meet no fault and the names the encoder writes an item for.)
C9_SetThenReadBack ==
    (/\ last.op = "set_tag_string"
     /\ last.rc = MP4TAG_OK
     /\ last.value # Null
     /\ last.plan = NoFaults
     /\ HasFourCC(last.name))
    => /\ ReadBack(World(NoFaults)) = [rc |-> MP4TAG_OK, value |-> last.value]
       /\ ReadBack(Reopened(disk)) = [rc |-> MP4TAG_OK, value |-> last.value]

\* The name the parser gives the item whose box is b.
ItemName(b) ==
    item_name(mp4_tag_fourcc_to_name(SubSeq(b, 5, 8)), SubSeq(b, 5, 8))

\* C10: mp4tag_set_tag_string and mp4tag_remove_tag that return OK leave
\* every tag whose name differs from the given one, case ignored, in the
\* file with the value and the payload it had: its item is in the new ilst
\* byte for byte.  (Stated for the calls that meet no fault.)
C10_OtherTagsKept ==
    (/\ last.op \in {"set_tag_string", "remove_tag"}
     /\ last.rc = MP4TAG_OK
     /\ last.plan = NoFaults)
    => \A i \in 1..Len(IlstItems(last.disk)) :
           str_casecmp(ItemName(IlstItems(last.disk)[i]), last.name) # 0
               => \E j \in 1..Len(IlstItems(disk)) :
                      IlstItems(disk)[j] = IlstItems(last.disk)[i]

\* The world the last call started in, for a call that meets `plan`.
Before(plan) ==
    [World(plan) EXCEPT !.disk = last.disk, !.fh = last.ctx.fh,
                        !.path = last.ctx.path,
                        !.writable = last.ctx.writable,
                        !.info = last.ctx.info,
                        !.cached_tags = last.ctx.cached_tags,
                        !.nalloc = last.ctx.nalloc, !.freed = last.ctx.freed]

\* What a call leaves of the context and the file, with its result code.
Outcome(r) ==
    [rc |-> r.rc, disk |-> r.w.disk, fh |-> r.w.fh, path |-> r.w.path,
     writable |-> r.w.writable, info |-> r.w.info,
     cached_tags |-> r.w.cached_tags]

\* The same of the last call.
LastOutcome ==
    [rc |-> last.rc, disk |-> disk, fh |-> ctx.fh, path |-> ctx.path,
     writable |-> ctx.writable, info |-> ctx.info,
     cached_tags |-> ctx.cached_tags]

\* C11: mp4tag_remove_tag(name) returns what mp4tag_set_tag_string(name,
\* NULL) returns from the same state and leaves the same file and context;
\* and once it has returned OK, mp4tag_read_tag_string(name) on the context
\* returns MP4TAG_ERR_TAG_NOT_FOUND, whether the file had other tags, only
\* that one, or no ilst at all.  (The read is stated for the calls that
\* copied every box in full, so that a violation is not a short copy.)
C11_RemoveThenNotFound ==
    last.op = "remove_tag" =>
        /\ LastOutcome
               = Outcome(mp4tag_set_tag_string(Before(last.plan), last.name,
                                               Null))
        /\ (last.rc = MP4TAG_OK /\ ~last.cut) =>
               ReadBack(World(NoFaults)).rc = MP4TAG_ERR_TAG_NOT_FOUND

\* The FourCC the encoder resolves a simple tag's name to.
FourCCOf(st) == item_fourcc(mp4_tag_name_to_fourcc(st.name), st.name)

\* A simple tag whose name resolves to a FourCC.
Resolves(st) == st.name # Null /\ FourCCOf(st) # <<0, 0, 0, 0>>

\* The simple tags of a sequence, each as its FourCC and its value.
TagPairs(sts) ==
    [i \in 1..Len(sts) |-> [fourcc |-> FourCCOf(sts[i]), value |-> sts[i].value]]

\* C12: after mp4tag_write_tags(C) has returned OK, mp4tag_read_tags on the
\* context returns OK and a collection that holds the tags of C whose names
\* resolve to a FourCC, in the order of C and with the values of C, and no
\* other tag.  (Stated for the calls that meet no fault; a tag is told by the
\* FourCC of its name.)
C12_WriteReplacesAll ==
    (/\ last.op = "write_tags"
     /\ last.rc = MP4TAG_OK
     /\ last.plan = NoFaults)
    => /\ mp4tag_read_tags(World(NoFaults)).rc = MP4TAG_OK
       /\ TagPairs(AllSimpleTags(mp4tag_read_tags(World(NoFaults)).tags.tags))
              = TagPairs(SelectSeq(AllSimpleTags(last.tags.tags), Resolves))

\* mp4tag_write_tags was called with a collection on a context open for
\* writing: it got to the choice of a strategy.
WriteTagsChoosing ==
    /\ last.op = "write_tags"
    /\ ~last.tags.isnull
    /\ ~last.ctx.fh.isnull
    /\ last.ctx.writable

\* The FileMap the call started with has an ilst, and the ilst header and the
\* serialized items of the collection fit in the ilst and the free box that
\* follows it.
Fits ==
    /\ last.ctx.info.has_ilst
    /\ 8 + Len(mp4_tags_serialize_ilst(last.tags.tags))
           <= last.ctx.info.ilst_size
              + (IF last.ctx.info.has_free_after_ilst
                 THEN last.ctx.info.free_after_ilst_size ELSE 0)

\* C13: mp4tag_write_tags writes in place exactly when the FileMap has an
\* ilst and 8 + the length of the serialized items is at most the size of
\* the ilst plus that of the free box after it; in every other case it
\* writes nothing in place and goes to the rewrite, so that it returns OK
\* only after the rename; a completed in-place write is not followed by a
\* rewrite.
C13_StrategyChoice ==
    WriteTagsChoosing =>
        /\ Fits <=> last.inplace \in {"ok", "header", "content", "padding"}
        /\ ~Fits => (last.ctx.info.has_ilst <=> last.inplace = "nospace")
        /\ (~Fits /\ (last.rc = MP4TAG_OK \/ last.plan = NoFaults))
               => last.renamed
        /\ last.inplace = "ok" => (~last.renamed /\ last.rc = MP4TAG_OK)

\* mp4tag_write_tags on a file whose ilst is too small for the collection:
\* the call went to the rewrite and renamed.
C13_NoRoomRewritten ==
    /\ WriteTagsChoosing
    /\ last.ctx.info.has_ilst
    /\ ~Fits
    /\ last.inplace = "nospace"
    /\ last.renamed

\* The simple tags of the collection mp4_tags_parse_ilst decoded.
Decoded == AllSimpleTags(ctx.cached_tags.tags)

\* b holds the elements of a, each as many times, in some order.
IsPerm(a, b) ==
    /\ Len(a) = Len(b)
    /\ \E f \in Permutations(1..Len(a)) : \A i \in 1..Len(a) : a[i] = b[f[i]]

\* C14: decoding the ilst that the encoder emitted for a collection C gives
\* the tags of C with their values, in some order; language and is_default
\* are not compared.  (A tag is told by the FourCC of its name, and the tags
\* of C the encoder writes no item for are left out of the comparison.)
C14_CodecRoundTrip ==
    (last.op = "parse_ilst" /\ ~last.tags.isnull) =>
        /\ last.rc = MP4TAG_OK
        /\ IsPerm(TagPairs(Decoded),
                  TagPairs(SelectSeq(AllSimpleTags(last.tags.tags), Resolves)))

\* The collection serialized was one trkn or disk tag whose value is "N/T".
IsPair(name, n, t) ==
    last.tags = CallerColl(<<SimpleTag(name, PairText(n, t))>>)

\* C15: for TRACK_NUMBER (trkn) and DISC_NUMBER (disk), the value "N/T"
\* encoded and then decoded is "N/T" when T > 0 and "N" when T = 0, for the
\* numbers N and T the encoder accepts.
C15_PairRoundTrip ==
    \A name \in {S_TRACK_NUMBER, S_DISC_NUMBER}, n \in PairNums, t \in PairNums :
        (last.op = "parse_ilst" /\ IsPair(name, n, t)) =>
            /\ Len(Decoded) = 1
            /\ Decoded[1].value = IF t > 0 THEN PairText(n, t) ELSE Dec(n)

\* C19: an item of trkn, disk, tmpo, cpil or pgap whose payload is one byte
\* decodes to the string "0" or "1", whatever the byte.
C19_OneByteIsBoolean ==
    (/\ last.op = "parse_ilst"
     /\ last.tags.isnull
     /\ last.name \in IntAtoms
     /\ Len(last.value) = 1)
    => /\ Len(Decoded) = 1
       /\ Decoded[1].value \in {<<48>>, <<49>>}

\* Two strings that differ at most in the case of their ASCII letters.
Lower(c) == IF c >= 65 /\ c <= 90 THEN c + 32 ELSE c
EqIgnoringCase(a, b) ==
    /\ Len(a) = Len(b)
    /\ \A i \in 1..Len(a) : Lower(a[i]) = Lower(b[i])

\* The simple tags of the collection mp4tag_read_tags gives in the state the
\* last call started in (the cached one, or the one parsed from the file).
TagsBefore == AllSimpleTags(mp4tag_read_tags(Before(NoFaults)).tags.tags)

\* A simple tag that carries the name asked for, and one that also carries a
\* value.
Named(st) == st.name # Null /\ EqIgnoringCase(st.name, last.name)
NamedWithValue(st) == Named(st) /\ st.value # Null

\* mp4tag_read_tag_string was called on a context whose collection can be
\* read.
ReadTagStringOnTags ==
    /\ last.op = "read_tag_string"
    /\ mp4tag_read_tags(Before(NoFaults)).rc = MP4TAG_OK

\* C16: mp4tag_read_tag_string(name, buf, size) finds the tag whatever the
\* case of the letters of name, so that a name that differs only in case
\* gives the same result; it returns OK and the value of the first tag of
\* that name that has one when the value and its terminator fit in size
\* bytes, MP4TAG_ERR_TAG_TOO_LARGE when they do not, and
\* MP4TAG_ERR_TAG_NOT_FOUND when no tag of the collection has that name.
C16_ReadTagString ==
    ReadTagStringOnTags =>
        /\ \A n \in Names :
               EqIgnoringCase(n, last.name) =>
                   /\ mp4tag_read_tag_string(Before(NoFaults), n,
                                             last.out.size).rc = last.rc
                   /\ mp4tag_read_tag_string(Before(NoFaults), n,
                                             last.out.size).value
                          = last.out.value
        /\ SelectSeq(TagsBefore, Named) = <<>>
               => last.rc = MP4TAG_ERR_TAG_NOT_FOUND
        /\ SelectSeq(TagsBefore, NamedWithValue) # <<>> =>
               IF Len(SelectSeq(TagsBefore, NamedWithValue)[1].value) + 1
                      <= last.out.size
               THEN /\ last.rc = MP4TAG_OK
                    /\ last.out.value
                           = SelectSeq(TagsBefore, NamedWithValue)[1].value
               ELSE last.rc = MP4TAG_ERR_TAG_TOO_LARGE

\* mp4tag_read_tag_string("title") into a buffer too small for the value of
\* the tag the parser named "TITLE".
C16_LowerCaseTooLarge ==
    /\ ReadTagStringOnTags
    /\ last.name = S_title
    /\ SelectSeq(TagsBefore, NamedWithValue) # <<>>
    /\ SelectSeq(TagsBefore, NamedWithValue)[1].name = S_TITLE
    /\ last.rc = MP4TAG_ERR_TAG_TOO_LARGE

\* The major brands and the compatible brands the documentation lists.
ListedMajorBrands ==
    { <<105, 115, 111, 109>>, <<105, 115, 111, 50>>, <<105, 115, 111, 53>>,
      <<105, 115, 111, 54>>, <<109, 112, 52, 49>>, <<109, 112, 52, 50>>,
      <<77, 52, 65, 32>>, <<77, 52, 66, 32>>, <<77, 52, 80, 32>>,
      <<77, 52, 86, 32>>, <<77, 52, 86, 72>>, <<97, 118, 99, 49>>,
      <<102, 52, 118, 32>>, <<113, 116, 32, 32>>, <<77, 83, 78, 86>>,
      <<78, 68, 65, 83>>, <<100, 97, 115, 104>>, <<51, 103, 112, 52>>,
      <<51, 103, 112, 53>>, <<51, 103, 112, 54>>, <<51, 103, 50, 97>> }

ListedCompatBrands ==
    { <<105, 115, 111, 109>>, <<109, 112, 52, 49>>, <<109, 112, 52, 50>>,
      <<77, 52, 65, 32>>, <<77, 52, 66, 32>>, <<77, 52, 86, 32>>,
      <<97, 118, 99, 49>> }

\* The file's first box is ftyp, and its major brand (payload bytes 1 to 4)
\* is listed or one of its compatible brands (payload bytes 9 on, four at a
\* time) is.
BrandAccepted(f, majors) ==
    /\ TopBoxes(f) # <<>>
    /\ TopBoxes(f)[1].type = MP4_BOX_FTYP
    /\ TopBoxes(f)[1].size >= 12
    /\ \/ SubSeq(f, 9, 12) \in majors
       \/ \E k \in 0..((TopBoxes(f)[1].size - 16) \div 4) :
              /\ 16 + 4 * k + 4 <= TopBoxes(f)[1].size
              /\ SubSeq(f, 16 + 4 * k + 1, 16 + 4 * k + 4)
                     \in ListedCompatBrands

\* mp4tag_open or mp4tag_open_rw was called on a closed context and no
\* system call failed.
Opening ==
    /\ last.op \in {"open", "open_rw"}
    /\ last.ctx.fh.isnull
    /\ last.plan = NoFaults

\* C17: mp4tag_open and mp4tag_open_rw accept a file (return OK) exactly
\* when its first box is ftyp and its major brand is one of the 21 listed
\* brands or one of its compatible brands is one of the 7 listed; every
\* other file is rejected with MP4TAG_ERR_NOT_MP4.  (Every file here has a
\* moov box, so that nothing but the brand check can reject it.)
C17_BrandValidation ==
    Opening =>
        IF BrandAccepted(last.disk, ListedMajorBrands)
        THEN last.rc = MP4TAG_OK
        ELSE last.rc = MP4TAG_ERR_NOT_MP4

\* A closed context: no handle, no path, no cached collection, the writable
\* flag clear, the FileMap zeroed.
IsClosed(c) ==
    /\ c.fh.isnull
    /\ c.path = "none"
    /\ c.cached_tags.isnull
    /\ ~c.writable
    /\ c.info = ZeroInfo

\* An open context: a handle and a path.
IsOpen(c) == ~c.fh.isnull /\ c.path # "none"

\* C18: the context is always either closed or open, after an open that
\* failed, after any number of calls of mp4tag_close, and after a write
\* whose rewrite, rename or reopen failed.
C18_ClosedOrOpen == IsClosed(ctx) \/ IsOpen(ctx)

\* C20: when mp4tag_write_tags returns OK, either the in-place write was
\* completed or the rewrite was and the file renamed, never both and never
\* neither; and the context is then open for writing on the path it had, its
\* cache is empty, and its FileMap is the one a parse of the file as it now
\* is gives, with has_ilst set.  (Stated for the calls that copied every box
\* in full, so that a violation is not a short copy.)
C20_WriteOkIsParsed ==
    (last.op = "write_tags" /\ last.rc = MP4TAG_OK /\ ~last.cut) =>
        /\ (last.inplace = "ok") # last.renamed
        /\ ~ctx.fh.isnull
        /\ ctx.writable
        /\ ctx.path = last.ctx.path
        /\ ctx.cached_tags.isnull
        /\ ctx.info = Refreshed.info
        /\ ctx.info.has_ilst

\* A new context that opens the file f read-only, and the tags it then reads.
FreshOpen(f) ==
    mp4tag_open([World(NoFaults) EXCEPT !.disk = f, !.fh = NullHandle,
                    !.path = "none", !.writable = FALSE, !.info = ZeroInfo,
                    !.cached_tags = NullColl], "orig")
FreshRead(f) == mp4tag_read_tags(FreshOpen(f).w)

\* The call left the file as a step of try_inplace that failed left it: it
\* wrote part of the new ilst and no rewrite replaced the file afterwards.
TornInPlace ==
    /\ last.op \in Writers
    /\ InplaceStepFailed
    /\ ~last.renamed
    /\ disk # last.disk

\* C21: when the in-place write stops after the new ilst header, after part
\* or all of the ilst content, or before the padding is complete, parsing the
\* file again reports MP4TAG_ERR_CORRUPT: neither the open of the file nor
\* the read of its tags returns OK with a FileMap or a collection.
C21_TornWriteIsCorrupt ==
    TornInPlace =>
        \/ FreshOpen(disk).rc = MP4TAG_ERR_CORRUPT
        \/ /\ FreshOpen(disk).rc = MP4TAG_OK
           /\ FreshRead(disk).rc = MP4TAG_ERR_CORRUPT

\* The rewrite of the last mp4tag_write_tags failed at a write to the scratch
\* file, at the fsync of the scratch file, or at rename().
ScratchWriteFailed ==
    /\ last.rc = MP4TAG_ERR_WRITE_FAILED
    /\ last.inplace \in {"none", "nospace"}
SyncFailed == last.rc = MP4TAG_ERR_IO /\ last.plan.sys = {"sync"}
RenameFailed == last.rc = MP4TAG_ERR_RENAME_FAILED
RewriteFailed ==
    /\ last.op = "write_tags"
    /\ ~last.renamed
    /\ ScratchWriteFailed \/ SyncFailed \/ RenameFailed

\* C22: when the rewrite fails at a write to the scratch file, at its fsync
\* or at rename(), "<path>.tmp" does not exist when mp4tag_write_tags
\* returns, and the context holds an open handle on the original file in the
\* mode it was opened in.  (Stated for the calls in which the open() that
\* follows a failed rename() succeeds, so that a violation is not a reopen
\* that failed.)
C22_FailedRewriteCleansUp ==
    (RewriteFailed /\ "reopen" \notin last.plan.sys) =>
        /\ ~tmpx
        /\ ~ctx.fh.isnull
        /\ ctx.fh.file = "orig"
        /\ ctx.fh.writable = last.ctx.writable
        /\ ctx.path = last.ctx.path

\* The type of the box whose header is at offset pos of the file f.
TypeAt(f, pos) == SubSeq(f, pos + 5, pos + 8)

\* mp4tag_open or mp4tag_open_rw has just parsed the file and recorded a
\* free box after the ilst.
ParsedWithFree ==
    /\ last.op \in {"open", "open_rw"}
    /\ last.rc = MP4TAG_OK
    /\ last.ctx.fh.isnull
    /\ ctx.info.has_free_after_ilst

\* C23: whenever the parser records a free box after the ilst
\* (has_free_after_ilst), that box starts at ilst_offset + ilst_size, has the
\* type free or skip, and ends inside meta: free_after_ilst_offset +
\* free_after_ilst_size <= meta_offset + meta_size; the space try_inplace
\* takes as available then ends inside meta too, whatever size field the box
\* carries.
C23_FreeInsideMeta ==
    ParsedWithFree =>
        /\ ctx.info.free_after_ilst_offset
               = ctx.info.ilst_offset + ctx.info.ilst_size
        /\ TypeAt(disk, ctx.info.free_after_ilst_offset)
               \in {MP4_BOX_FREE, MP4_BOX_SKIP}
        /\ ctx.info.free_after_ilst_offset + ctx.info.free_after_ilst_size
               <= ctx.info.meta_offset + ctx.info.meta_size
        /\ ctx.info.ilst_offset + inplace_available(ctx.info)
               <= ctx.info.meta_offset + ctx.info.meta_size

\* The header mp4_read_box_header was asked to read: where it starts, the
\* bytes left in the file from there, its 32-bit size field, the bytes it
\* takes (16 when a 64-bit size follows), and the size it resolves to.
HdrPos == last.ctx.fh.pos
HdrRemain == Len(disk) - HdrPos
HdrRaw == BE32(SubSeq(disk, HdrPos + 1, HdrPos + 4))
HdrNeed == IF HdrRemain >= 8 /\ HdrRaw = 1 THEN 16 ELSE 8
HdrTotal ==
    IF HdrRaw = 1 THEN BE64(SubSeq(disk, HdrPos + 9, HdrPos + 16))
    ELSE IF HdrRaw = 0 THEN HdrRemain
    ELSE HdrRaw

\* C24: mp4_read_box_header returns MP4TAG_ERR_TRUNCATED when fewer bytes are
\* left than the header takes, MP4TAG_ERR_CORRUPT when the size it resolves
\* is below the header size (8, or 16 with a 64-bit size); a box it returns
\* with OK has data_offset = offset + header_size, data_size = size -
\* header_size >= 0 and size >= 8.
C24_ReadBoxHeader ==
    last.op = "read_box_header" =>
        /\ HdrRemain < HdrNeed => last.rc = MP4TAG_ERR_TRUNCATED
        /\ (HdrRemain >= HdrNeed /\ HdrTotal < HdrNeed)
               => last.rc = MP4TAG_ERR_CORRUPT
        /\ last.rc = MP4TAG_OK =>
               /\ last.box.offset = HdrPos
               /\ last.box.data_offset = last.box.offset + last.box.header_size
               /\ last.box.data_size = last.box.size - last.box.header_size
               /\ last.box.data_size >= 0
               /\ last.box.size >= 8

\* C25: in every state of a context (after an open, after an in-place write
\* or a rewrite, after a parse that failed, after a close) its FileMap has
\* has_ilst only with has_meta and has_udta, has_meta only with has_udta,
\* and has_free_after_ilst only with has_ilst.
C25_FileMapFlags ==
    /\ ctx.info.has_ilst => (ctx.info.has_meta /\ ctx.info.has_udta)
    /\ ctx.info.has_meta => ctx.info.has_udta
    /\ ctx.info.has_free_after_ilst => ctx.info.has_ilst

\* A rewrite gave a file that had no udta its first ilst, and the parse that
\* follows the rename recorded it.
C25_IlstAfterRewrite ==
    /\ last.op \in Writers
    /\ last.renamed
    /\ ~last.ctx.info.has_udta
    /\ ctx.info.has_ilst
    /\ ctx.info.has_meta
    /\ ctx.info.has_udta

\* C26: mp4tag_write_tags reads no collection it has released: the
\* collection it was handed and serializes (a caller's own, or the one the
\* preceding mp4tag_read_tags on the context returned) is none of those the
\* context has freed.
C26_SerializedIsLive ==
    WriteTagsChoosing => last.tags.id \notin ctx.freed

\* The number of items of f's ilst whose type is fourcc.
ItemsOfType(f, fourcc) ==
    Cardinality({ i \in 1..Len(IlstItems(f)) :
                    SubSeq(IlstItems(f)[i], 5, 8) = fourcc })

\* C27: after mp4tag_set_tag_string(name, value) has returned OK, the ilst of
\* the file holds at most one item of the FourCC the name resolves to,
\* whether the name is the canonical one in any letter case or the four
\* characters of the atom.  (Stated for the files whose ilst held at most one
\* item of that FourCC before the call.)
C27_OneItemPerFourCC ==
    (/\ last.op = "set_tag_string"
     /\ last.rc = MP4TAG_OK
     /\ last.value # Null
     /\ HasFourCC(last.name)
     /\ ItemsOfType(last.disk,
                    item_fourcc(mp4_tag_name_to_fourcc(last.name), last.name))
            <= 1)
    => ItemsOfType(disk,
                   item_fourcc(mp4_tag_name_to_fourcc(last.name), last.name))
           <= 1

\* The last call wrote in place, and neither it nor a call before it met a
\* fault.
InplaceDone ==
    /\ last.op \in Writers
    /\ last.inplace = "ok"
    /\ nfaults = 0

\* The collection mp4tag_read_tags gave before the last call, written back
\* with mp4tag_write_tags now.
WriteBack ==
    mp4tag_write_tags(World(NoFaults),
                      WorkColl(AllSimpleTags(
                          mp4tag_read_tags(Before(NoFaults)).tags.tags)))

\* C28: an in-place write leaves the space for in-place writing, ilst_size
\* plus the size of the free box after the ilst in the FileMap parsed after
\* the write, as it was before the write; so writing the collection the file
\* held before back is done in place too.
C28_InplaceSpaceKept ==
    InplaceDone =>
        /\ inplace_available(ctx.info) = inplace_available(last.ctx.info)
        /\ WriteBack.w.inplace = "ok"

\* A call of mp4tag_write_tags that met no fault and returned OK.
WroteOk(l) ==
    /\ l.op = "write_tags"
    /\ l.rc = MP4TAG_OK
    /\ l.plan = NoFaults
    /\ ~l.tags.isnull

C30_WalksAdvance ==
    [][walk.at = "test" =>
          (walk'.at # "test" \/ walk'.pos >= walk.pos + 8)]_vars

=============================================================================
